---- MODULE Spec2Model ----
(***************************************************************************)
(* HyperSKU: the forecasting, reorder and anomaly-detection services.      *)
(*                                                                         *)
(* Two sources of ForecastService exist in the repository:                 *)
(*   src/unnamed/part_006                   ("level-seasonal-with-         *)
(*                                           residuals", median baseline)  *)
(*   src/server/services/forecastService.ts ("moving-average-with-         *)
(*                                           seasonality", fixed baseline) *)
(* Both are modelled; the variable `variant` says which one is running.    *)
(* The definitions of forecastService.ts carry the suffix MA.              *)
(*                                                                         *)
(* Numbers.  JavaScript numbers are modelled as exact rationals <<n, d>>   *)
(* in lowest terms with d > 0; d = 0 encodes the non-finite values         *)
(* (<<1,0>> = Infinity, <<-1,0>> = -Infinity, <<0,0>> = NaN).  Math.sqrt   *)
(* is rounded down to a multiple of 1/SqrtScale (IEEE rounds it to 53      *)
(* bits); every other operation is exact.                                  *)
(*                                                                         *)
(* Time.  A timestamp is a number of hours since 1970-01-01T00:00Z, the    *)
(* server's time zone is UTC, so that getDay and the ISO date agree.       *)
(***************************************************************************)
EXTENDS Integers, Sequences, FiniteSets, TLC

(***************************************************************************)
(* Bounds of the model                                                     *)
(***************************************************************************)
\* longest sales history handed to generateForecast
MaxLen == 9
\* largest quantity of one sale in the enumerated histories
MaxQty == 2
\* number of most recent sales of a history whose quantities are enumerated
MaxVary == 3
\* Math.sqrt is rounded down to a multiple of 1/SqrtScale
SqrtScale == 100

(***************************************************************************)
(* Numbers                                                                 *)
(***************************************************************************)
Abs(x) == IF x < 0 THEN -x ELSE x

Sign(x) == IF x < 0 THEN -1 ELSE IF x > 0 THEN 1 ELSE 0

RECURSIVE GCD(_, _)
GCD(a, b) == IF b = 0 THEN a ELSE GCD(b, a % b)

NaN == <<0, 0>>

Infinity == <<1, 0>>

\* the number n / d; d = 0 gives Infinity, -Infinity or NaN as in IEEE
Rat(n, d) ==
    IF d = 0 THEN <<Sign(n), 0>>
    ELSE LET g == GCD(Abs(n), Abs(d))
             s == IF d < 0 THEN -1 ELSE 1
         IN  <<s * (n \div g), s * (d \div g)>>

Num(n) == <<n, 1>>

IsFinite(a) == a[2] # 0

IsNaN(a) == a = NaN

Neg(a) == <<-a[1], a[2]>>

Add(a, b) ==
    IF IsFinite(a) /\ IsFinite(b)
    THEN LET g == GCD(a[2], b[2])
         IN  Rat(a[1] * (b[2] \div g) + b[1] * (a[2] \div g), (a[2] \div g) * b[2])
    ELSE IF IsNaN(a) \/ IsNaN(b) THEN NaN
    ELSE IF ~IsFinite(a) /\ ~IsFinite(b) THEN (IF a = b THEN a ELSE NaN)
    ELSE IF IsFinite(a) THEN b ELSE a

Sub(a, b) == Add(a, Neg(b))

Mul(a, b) ==
    IF IsFinite(a) /\ IsFinite(b)
    THEN LET g == GCD(Abs(a[1]), b[2])
             h == GCD(Abs(b[1]), a[2])
         IN  Rat((a[1] \div g) * (b[1] \div h), (a[2] \div h) * (b[2] \div g))
    ELSE IF IsNaN(a) \/ IsNaN(b) THEN NaN
    ELSE <<Sign(a[1]) * Sign(b[1]), 0>>

Div(a, b) ==
    IF IsFinite(a) /\ IsFinite(b)
    THEN (IF b[1] = 0 THEN <<Sign(a[1]), 0>> ELSE Rat(a[1] * b[2], a[2] * b[1]))
    ELSE IF IsNaN(a) \/ IsNaN(b) THEN NaN
    ELSE IF ~IsFinite(a) /\ ~IsFinite(b) THEN NaN
    ELSE IF IsFinite(a) THEN Num(0)
    ELSE <<a[1] * (IF b[1] < 0 THEN -1 ELSE 1), 0>>

\* a < b; every comparison with NaN is false
Lt(a, b) ==
    IF IsNaN(a) \/ IsNaN(b) THEN FALSE
    ELSE IF IsFinite(a) /\ IsFinite(b)
    THEN LET g == GCD(a[2], b[2])
         IN  a[1] * (b[2] \div g) < b[1] * (a[2] \div g)
    ELSE IF ~IsFinite(a) /\ ~IsFinite(b) THEN a[1] < b[1]
    ELSE IF IsFinite(a) THEN b[1] > 0 ELSE a[1] < 0

Gt(a, b) == Lt(b, a)

Le(a, b) == ~IsNaN(a) /\ ~IsNaN(b) /\ ~Lt(b, a)

Ge(a, b) == Le(b, a)

\* Math.max(a, b) and Math.min(a, b): NaN if either is NaN
Max(a, b) == IF IsNaN(a) \/ IsNaN(b) THEN NaN ELSE IF Lt(a, b) THEN b ELSE a

Min(a, b) == IF IsNaN(a) \/ IsNaN(b) THEN NaN ELSE IF Lt(b, a) THEN b ELSE a

\* Math.ceil and Math.floor; the non-finite values are returned unchanged
Ceil(a) == IF IsFinite(a) THEN Num(-((-a[1]) \div a[2])) ELSE a

Floor(a) == IF IsFinite(a) THEN Num(a[1] \div a[2]) ELSE a

RAbs(a) == <<Abs(a[1]), a[2]>>

\* the largest r with r * r <= n, by bisection on lo <= r < hi
RECURSIVE ISqrtBetween(_, _, _)
ISqrtBetween(n, lo, hi) ==
    IF hi - lo <= 1 THEN lo
    ELSE LET mid == (lo + hi) \div 2
         IN  IF mid * mid <= n THEN ISqrtBetween(n, mid, hi)
             ELSE ISqrtBetween(n, lo, mid)

RECURSIVE UpperFor(_, _)
UpperFor(n, h) == IF h * h > n THEN h ELSE UpperFor(n, 2 * h)

ISqrt(n) == ISqrtBetween(n, 0, UpperFor(n, 1))

\* Math.sqrt, rounded down to a multiple of 1 / SqrtScale
Sqrt(a) ==
    IF IsNaN(a) THEN NaN
    ELSE IF ~IsFinite(a) THEN (IF a[1] > 0 THEN a ELSE NaN)
    ELSE IF a[1] < 0 THEN NaN
    ELSE Rat(ISqrt((a[1] * SqrtScale * SqrtScale) \div a[2]), SqrtScale)

\* values.reduce((sum, val) => sum + val, 0): the additions are exact, so the
\* sum is taken by halves, which keeps the evaluation shallow
RECURSIVE SumSeq(_)
SumSeq(s) ==
    IF Len(s) = 0 THEN Num(0)
    ELSE IF Len(s) = 1 THEN Add(Num(0), s[1])
    ELSE LET h == Len(s) \div 2
         IN  Add(SumSeq(SubSeq(s, 1, h)), SumSeq(SubSeq(s, h + 1, Len(s))))

\* A nullable integer column holds <<n>>, or <<>> for null.
\* JavaScript's `x || dflt`: dflt when x is null or 0
OrElse(x, dflt) == IF x = <<>> \/ x = <<0>> THEN dflt ELSE x[1]

(***************************************************************************)
(* Time                                                                    *)
(***************************************************************************)
\* Date.prototype.getDay: 0 = Sunday .. 6 = Saturday (day 0 was a Thursday)
getDay(ts) == ((ts \div 24) + 4) % 7

(***************************************************************************)
(* State                                                                   *)
(***************************************************************************)
VARIABLES
    variant,          \* which ForecastService source runs: "residuals" or "MA"
    historicalData,   \* ForecastInput.historicalData: Seq of [timestamp, quantity]
    horizonHours,     \* ForecastInput.horizonHours of the last call (0: none yet)
    result,           \* <<the ForecastResult of the generateForecast call>>, <<>> before it
    now,              \* the clock (new Date()), in hours
    skus,             \* table skus of the organization, ordered by name
    sales,            \* table sales of the store, in insertion order
    inventory,        \* table inventory of the store: one row per SKU
    forecasts,        \* table forecasts of the store, in insertion order
    reorders,         \* table reorders of the store, in insertion order
    anomalies,        \* table anomalies of the store, in insertion order
    detection,        \* <<the result of the last detectAnomalies call>>, <<>> before it
    outcome           \* <<how the last batch call of ForecastService ended>>, <<>> before it

vars == <<variant, historicalData, horizonHours, result,
          now, skus, sales, inventory, forecasts, reorders, anomalies, detection,
          outcome>>

\* the anomaly table and the last detection result
anomalyVars == <<anomalies, detection>>

\* the tables and the clock, untouched by a direct call of generateForecast
storeVars == <<now, skus, sales, inventory, forecasts, reorders, outcome>>

\* the direct call's input and result, untouched by the store operations
callVars == <<historicalData, horizonHours, result>>

(***************************************************************************)
(* Statistics kernel (the same code in both ForecastService sources)       *)
(***************************************************************************)
quantitiesOf(data) == [i \in 1..Len(data) |-> Num(data[i].quantity)]

\* values.reduce((sum, val) => sum + val, 0) / values.length
calculateMean(values) == Div(SumSeq(values), Num(Len(values)))

\* population standard deviation around the supplied mean
calculateStandardDeviation(values, mean) ==
    LET sq == [i \in 1..Len(values) |->
                  Mul(Sub(values[i], mean), Sub(values[i], mean))]
    IN  Sqrt(Div(SumSeq(sq), Num(Len(values))))

\* the observations of day-of-week d (0..6), in order
OnDay(data, d) == SelectSeq(data, LAMBDA e : getDay(e.timestamp) = d)

(***************************************************************************)
(* ForecastService of src/unnamed/part_006                                 *)
(***************************************************************************)
\* 7 deviations from the overall mean, index d + 1 for day-of-week d
detectSeasonality(data, overallMean) ==
    [k \in 1..7 |->
        LET bucket == OnDay(data, k - 1)
        IN  IF Len(bucket) = 0 THEN Num(0)
            ELSE Sub(Div(SumSeq(quantitiesOf(bucket)), Num(Len(bucket))), overallMean)]

calculateResiduals(data, mean, seasonalityDeviations) ==
    [i \in 1..Len(data) |->
        Sub(Num(data[i].quantity),
            Add(mean, seasonalityDeviations[getDay(data[i].timestamp) + 1]))]

\* a plausible slip: the horizon rounded down to whole days
forecastPointsFloor(hours) == Floor(Rat(hours, 24))[1]

\* Math.ceil(horizonHours / 24)
forecastPointsOf(hours) == Ceil(Rat(hours, 24))[1]

\* a plausible slip: the baseline fallback taken below 6 points instead of 7
InsufficientHistoryBelow6(data) == Len(data) < 6

\* historicalData.length < 7: too little history for the seasonal model
InsufficientHistory(data) == Len(data) < 7

\* median.push(Math.max(0, baseValue))
medianPoint(baseValue) == Max(Num(0), baseValue)

\* a plausible slip: the lower band left unclamped
p10PointUnclamped(baseValue, uncertainty) ==
    Sub(baseValue, Mul(Rat(128, 100), uncertainty))

\* p10.push(Math.max(0, baseValue - 1.28 * uncertainty))
p10Point(baseValue, uncertainty) ==
    Max(Num(0), Sub(baseValue, Mul(Rat(128, 100), uncertainty)))

\* a plausible slip: the upper band computed with the sign of the lower band
p90PointMinus(baseValue, uncertainty) ==
    Max(Num(0), Sub(baseValue, Mul(Rat(128, 100), uncertainty)))

\* p90.push(Math.max(0, baseValue + 1.28 * uncertainty))
p90Point(baseValue, uncertainty) ==
    Max(Num(0), Add(baseValue, Mul(Rat(128, 100), uncertainty)))

Median(sorted) ==
    LET medianIndex == Len(sorted) \div 2
    IN  IF Len(sorted) % 2 = 0
        THEN Div(Add(sorted[medianIndex], sorted[medianIndex + 1]), Num(2))
        ELSE sorted[medianIndex + 1]

\* quantities.sort((a, b) => a - b): insertion of each element in order
RECURSIVE SortAsc(_)
SortAsc(s) ==
    IF Len(s) <= 1 THEN s
    ELSE LET rest == SortAsc(SubSeq(s, 1, Len(s) - 1))
             x    == s[Len(s)]
             lo   == SelectSeq(rest, LAMBDA y : Le(y, x))
             hi   == SelectSeq(rest, LAMBDA y : Lt(x, y))
         IN  lo \o <<x>> \o hi

generateBaseline(data, hours) ==
    LET forecastPoints == forecastPointsOf(hours)
        baseValue ==
            IF Len(data) > 0
            THEN Max(Num(1), Median(SortAsc(quantitiesOf(data))))
            ELSE Num(5)
    IN  [median   |-> [i \in 1..forecastPoints |-> baseValue],
         p10      |-> [i \in 1..forecastPoints |-> Mul(baseValue, Rat(6, 10))],
         p90      |-> [i \in 1..forecastPoints |-> Mul(baseValue, Rat(18, 10))],
         metadata |-> [model    |-> "baseline-median",
                       accuracy |-> <<Num(60)>>,
                       notes    |-> IF Len(data) > 0 THEN "median" ELSE "default"]]

calculateBacktestAccuracy(data) ==
    IF Len(data) < 14 THEN Num(70)
    ELSE
    LET trainData == SubSeq(data, 1, Len(data) - 7)
        testData  == SubSeq(data, Len(data) - 6, Len(data))
    IN  IF Len(trainData) < 7 THEN Num(70)
        ELSE
        LET trainMean        == calculateMean(quantitiesOf(trainData))
            trainSeasonality == detectSeasonality(trainData, trainMean)
            startDay == (getDay(trainData[Len(trainData)].timestamp) + 1) % 7
            forecast(i) == Add(trainMean, trainSeasonality[((startDay + i) % 7) + 1])
            valid == SelectSeq([i \in 1..Len(testData) |-> i],
                               LAMBDA i : testData[i].quantity > 0)
            apes == [k \in 1..Len(valid) |->
                        RAbs(Div(Sub(forecast(valid[k] - 1),
                                     Num(testData[valid[k]].quantity)),
                                 Num(testData[valid[k]].quantity)))]
        IN  IF Len(valid) = 0 THEN Num(70)
            ELSE LET mape == Div(SumSeq(apes), Num(Len(valid)))
                 IN  Max(Num(0), Min(Num(100), Mul(Sub(Num(1), mape), Num(100))))

generateForecast(data, hours) ==
    IF InsufficientHistory(data) THEN generateBaseline(data, hours)
    ELSE
    LET mean == calculateMean(quantitiesOf(data))
        seasonalityDeviations == detectSeasonality(data, mean)
        residuals   == calculateResiduals(data, mean, seasonalityDeviations)
        residualStd == calculateStandardDeviation(residuals, Num(0))
        forecastPoints == forecastPointsOf(hours)
        startDay == (getDay(data[Len(data)].timestamp) + 1) % 7
        baseValue(i)   == Add(mean, seasonalityDeviations[((startDay + i) % 7) + 1])
        uncertainty(i) == Mul(residualStd, Sqrt(Num(i + 1)))
    IN  [median   |-> [k \in 1..forecastPoints |-> medianPoint(baseValue(k - 1))],
         p10      |-> [k \in 1..forecastPoints |->
                          p10Point(baseValue(k - 1), uncertainty(k - 1))],
         p90      |-> [k \in 1..forecastPoints |->
                          p90Point(baseValue(k - 1), uncertainty(k - 1))],
         metadata |-> [model    |-> "level-seasonal-with-residuals",
                       accuracy |-> <<calculateBacktestAccuracy(data)>>,
                       notes    |-> <<Len(data), Len(residuals)>>]]

(***************************************************************************)
(* ForecastService of src/server/services/forecastService.ts               *)
(***************************************************************************)
\* 7 day-of-week averages (not centred on the mean)
detectSeasonalityMA(data) ==
    [k \in 1..7 |->
        LET bucket == OnDay(data, k - 1)
        IN  IF Len(bucket) > 0
            THEN Div(SumSeq(quantitiesOf(bucket)), Num(Len(bucket)))
            ELSE Num(0)]

generateBaselineMA(hours) ==
    LET forecastPoints == forecastPointsOf(hours)
        baseValue == Num(5)
    IN  [median   |-> [i \in 1..forecastPoints |-> baseValue],
         p10      |-> [i \in 1..forecastPoints |-> Mul(baseValue, Rat(5, 10))],
         p90      |-> [i \in 1..forecastPoints |-> Mul(baseValue, Num(2))],
         metadata |-> [model    |-> "baseline",
                       accuracy |-> <<>>,
                       notes    |-> "baseline"]]

calculateMAPE(values) ==
    IF Len(values) < 2 THEN Num(0)
    ELSE
    LET valid == SelectSeq([i \in 1..Len(values) |-> i],
                           LAMBDA i : i >= 2 /\ Gt(values[i], Num(0)))
        errors == [k \in 1..Len(valid) |->
                      RAbs(Div(Sub(values[valid[k]], values[valid[k] - 1]),
                               values[valid[k]]))]
    IN  IF Len(valid) > 0
        THEN Mul(Sub(Num(1), Div(SumSeq(errors), Num(Len(valid)))), Num(100))
        ELSE Num(80)

generateForecastMA(data, hours) ==
    IF InsufficientHistory(data) THEN generateBaselineMA(hours)
    ELSE
    LET quantities == quantitiesOf(data)
        mean == calculateMean(quantities)
        std  == calculateStandardDeviation(quantities, mean)
        seasonality == detectSeasonalityMA(data)
        forecastPoints == forecastPointsOf(hours)
        baseValue(i)   == Add(mean, seasonality[(i % 7) + 1])
        uncertainty(i) == Mul(Mul(std, Sqrt(Num(i + 1))), Rat(1, 10))
    IN  [median   |-> [k \in 1..forecastPoints |-> medianPoint(baseValue(k - 1))],
         p10      |-> [k \in 1..forecastPoints |->
                          p10Point(baseValue(k - 1), uncertainty(k - 1))],
         p90      |-> [k \in 1..forecastPoints |->
                          p90Point(baseValue(k - 1), uncertainty(k - 1))],
         metadata |-> [model    |-> "moving-average-with-seasonality",
                       accuracy |-> <<calculateMAPE(quantities)>>,
                       notes    |-> <<Len(data)>>]]

\* the weekly seasonality that generateForecast of the running source computes
\* for the history: this.detectSeasonality(historicalData, mean) in part_006,
\* this.detectSeasonality(historicalData) in forecastService.ts
weeklySeasonality(v, data) ==
    IF v = "residuals"
    THEN detectSeasonality(data, calculateMean(quantitiesOf(data)))
    ELSE detectSeasonalityMA(data)

\* the generateForecast of the ForecastService source that is running
Forecast(v, data, hours) ==
    IF v = "residuals" THEN generateForecast(data, hours)
    ELSE generateForecastMA(data, hours)

(***************************************************************************)
(* Specification SpecForecast: generateForecast applied to enumerated      *)
(* inputs                                                                  *)
(***************************************************************************)
Variants == {"residuals", "MA"}

\* horizons requested of generateForecast; runStoreForecasts always asks 168
Horizons == {1, 24, 25, 168}

\* The quantities of a history of n sales: the most recent MaxVary ones range
\* over 0..MaxQty, the older ones are 1 unit each.
DailyQuantities(n) ==
    LET free == IF n < MaxVary THEN n ELSE MaxVary
    IN  {[i \in 1..n |-> IF i <= n - free THEN 1 ELSE f[i - (n - free)]] :
            f \in [1..free -> 0..MaxQty]}

DailyHistories == UNION {DailyQuantities(n) : n \in 0..MaxLen}

\* histories with large swings from one day to the next, and histories long
\* enough for the backtest: a week of 10 and 1 in turn, a week of 10 then a
\* week of 1, the reverse, and two flat weeks
SwingHistories ==
    { <<10, 1, 10, 1, 10, 1, 10>>,
      <<10, 10, 10, 10, 10, 10, 10, 1, 1, 1, 1, 1, 1, 1>>,
      <<1, 1, 1, 1, 1, 1, 1, 10, 10, 10, 10, 10, 10, 10>>,
      <<3, 3, 3, 3, 3, 3, 3, 3, 3, 3, 3, 3, 3, 3>> }

\* one sale a day at noon on consecutive days from 1970-01-01, oldest first

AsHistory(qs) == [i \in 1..Len(qs) |-> [timestamp |-> (i - 1) * 24 + 12, quantity |-> qs[i]]]

InitForecast ==
    /\ variant \in Variants
    /\ \E qs \in DailyHistories \cup SwingHistories : historicalData = AsHistory(qs)
    /\ horizonHours = 0
    /\ result = <<>>
    /\ now = 0
    /\ skus = <<>>
    /\ sales = <<>>
    /\ inventory = <<>>
    /\ forecasts = <<>>
    /\ reorders = <<>>
    /\ anomalies = <<>>
    /\ detection = <<>>
    /\ outcome = <<>>

GenerateForecast ==
    /\ result = <<>>
    /\ \E h \in Horizons :
        /\ horizonHours' = h
        /\ result' = <<Forecast(variant, historicalData, h)>>
    /\ UNCHANGED <<variant, historicalData>>
    /\ UNCHANGED storeVars
    /\ UNCHANGED anomalyVars

NextForecast == GenerateForecast

SpecForecast == InitForecast /\ [][NextForecast]_vars

(***************************************************************************)
(* Storage (src/unnamed/part_005), one store                               *)
(***************************************************************************)
\* rows ordered by timestamp, latest first (ORDER BY timestamp DESC)
RECURSIVE SortDescByTimestamp(_)
SortDescByTimestamp(rows) ==
    IF Len(rows) <= 1 THEN rows
    ELSE LET rest == SortDescByTimestamp(SubSeq(rows, 1, Len(rows) - 1))
             x    == rows[Len(rows)]
             hi   == SelectSeq(rest, LAMBDA y : y.timestamp >= x.timestamp)
             lo   == SelectSeq(rest, LAMBDA y : y.timestamp < x.timestamp)
         IN  hi \o <<x>> \o lo

getSalesByStore(startDate, endDate) ==
    SortDescByTimestamp(
        SelectSeq(sales, LAMBDA r : r.timestamp >= startDate /\ r.timestamp <= endDate))

\* the active SKUs of the organization
getSkusByOrganization == SelectSeq(skus, LAMBDA k : k.isActive)

\* <<the SKU record>>, or <<>> when there is none
getSku(id) == SelectSeq(skus, LAMBDA k : k.id = id)

\* a plausible slip: the order of generatedAt ascending
getForecastOldest(skuId) ==
    LET mine == SelectSeq(forecasts, LAMBDA f : f.skuId = skuId)
    IN  SelectSeq(mine, LAMBDA f : \A i \in 1..Len(mine) :
                                      mine[i].generatedAt >= f.generatedAt)

\* <<the latest forecast of the SKU>> (ORDER BY generatedAt DESC LIMIT 1), or <<>>
getForecast(skuId) ==
    LET mine == SelectSeq(forecasts, LAMBDA f : f.skuId = skuId)
    IN  SelectSeq(mine, LAMBDA f : \A i \in 1..Len(mine) :
                                      mine[i].generatedAt <= f.generatedAt)

(***************************************************************************)
(* ForecastService.runStoreForecasts                                       *)
(***************************************************************************)
\* the SKUs of the store
SkuIds == {"s1", "s2"}

\* the call of one SKU's iteration that throws, if any: in both sources the
\* three calls are inside the try block of the loop body
ForecastFaults == {"none", "getSalesByStore", "generateForecast", "createForecast"}

\* no call throws
NoFaults == [id \in SkuIds |-> "none"]

\* the SKUs whose iteration threw: each is logged by the catch in the loop
forecastRunLogged(todo, faults) ==
    {todo[i].id : i \in {j \in 1..Len(todo) : faults[todo[j].id] # "none"}}

\* a plausible slip: the error of a SKU's iteration thrown on after logging
forecastRunThrowsAnyFault(loaded, todo, faults) ==
    ~loaded \/ \E i \in 1..Len(todo) : faults[todo[i].id] # "none"

\* runStoreForecasts rejects only when getStore or getSkusByOrganization
\* throws or the store is missing (`loaded` false)
forecastRunThrows(loaded, todo, faults) == ~loaded

\* the forecast rows that one run over the active SKUs `todo` appends to `tbl`;
\* a SKU whose iteration throws is logged and passed over
RECURSIVE ForecastRows(_, _, _, _)
ForecastRows(todo, salesData, tbl, faults) ==
    IF todo = <<>> THEN tbl
    ELSE IF faults[todo[1].id] # "none"
    THEN ForecastRows(Tail(todo), salesData, tbl, faults)
    ELSE
    LET sku == todo[1]
        mine == SelectSeq(salesData, LAMBDA r : r.skuId = sku.id)
        skuSales == [i \in 1..Len(mine) |->
                        [timestamp |-> mine[i].timestamp, quantity |-> mine[i].quantity]]
        forecast == Forecast(variant, skuSales, 168)
        row == [skuId          |-> sku.id,
                horizonHours   |-> 168,
                medianForecast |-> forecast.median,
                p10Forecast    |-> forecast.p10,
                p90Forecast    |-> forecast.p90,
                metadata       |-> forecast.metadata,
                generatedAt    |-> Len(tbl) + 1]
    IN  ForecastRows(Tail(todo), salesData, Append(tbl, row), faults)

(***************************************************************************)
(* ForecastService.generateReorderSuggestions                              *)
(***************************************************************************)
\* xs.slice(0, Math.min(n, xs.length)), also for n <= 0
SliceTo(xs, n) ==
    LET m == IF n < Len(xs) THEN n ELSE Len(xs)
        e == IF m < 0 THEN (IF Len(xs) + m < 0 THEN 0 ELSE Len(xs) + m) ELSE m
    IN  SubSeq(xs, 1, e)

\* a plausible slip: the whole forecast summed, whatever the lead time
demandOverAll(xs, leadTimeDays) == SumSeq(xs)

\* the demand of the first leadTimeDays forecast days
demandOver(xs, leadTimeDays) == SumSeq(SliceTo(xs, leadTimeDays))

\* Math.ceil(leadTimeDemand * 0.2)
safetyStockOf(leadTimeDemand) == Ceil(Mul(leadTimeDemand, Rat(2, 10)))

availableStockOf(inv) == Num(OrElse(inv.onHand, 0) - OrElse(inv.reserved, 0))

\* a plausible slip: the safety stock left out of the reorder point
reorderPointNoSafety(leadTimeDemand, safetyStock) == leadTimeDemand

reorderPointOf(leadTimeDemand, safetyStock) == Add(leadTimeDemand, safetyStock)

\* a plausible slip: the comparison made strict
needsReorderStrict(availableStock, reorderPoint) == Lt(availableStock, reorderPoint)

\* a plausible slip: the comparison reversed
needsReorderReversed(availableStock, reorderPoint) == Ge(availableStock, reorderPoint)

\* availableStock <= reorderPoint
needsReorder(availableStock, reorderPoint) == Le(availableStock, reorderPoint)

\* the rows that one run over the inventory rows `todo` appends to `tbl`
\* the call of one inventory row's iteration that throws, if it is reached
ReorderFaults == {"none", "getForecast", "getSku", "createReorder"}

\* the reorder table after one run over the inventory rows `todo`, and whether
\* the run threw: nothing in the loop catches, so the first call that throws
\* ends the run
\* a plausible slip: the insert made an upsert on the SKU, so that a new
\* suggestion takes the place of the stored ones
createReorderUpsert(tbl, reorder) ==
    Append(SelectSeq(tbl, LAMBDA r : r.skuId # reorder.skuId), reorder)

\* storage.createReorder: db.insert(reorders).values(reorder)
createReorder(tbl, reorder) == Append(tbl, reorder)

RECURSIVE ReorderRows(_, _, _)
ReorderRows(todo, tbl, faults) ==
    IF todo = <<>> THEN [table |-> tbl, thrown |-> FALSE]
    ELSE
    LET inv == todo[1]
        forecast == getForecast(inv.skuId)
        sku == getSku(inv.skuId)
    IN  IF faults[inv.skuId] = "getForecast" THEN [table |-> tbl, thrown |-> TRUE]
        ELSE IF forecast = <<>> THEN ReorderRows(Tail(todo), tbl, faults)
        ELSE IF faults[inv.skuId] = "getSku" THEN [table |-> tbl, thrown |-> TRUE]
        ELSE IF sku = <<>> THEN ReorderRows(Tail(todo), tbl, faults)
        ELSE
        LET leadTimeDays == OrElse(sku[1].leadTimeDays, 7)
            leadTimeDemand == demandOver(forecast[1].medianForecast, leadTimeDays)
            conservativeDemand == demandOver(forecast[1].p90Forecast, leadTimeDays)
            safetyStock == safetyStockOf(leadTimeDemand)
            availableStock == availableStockOf(inv)
            reorderPoint == reorderPointOf(leadTimeDemand, safetyStock)
            conservativeQty ==
                Ceil(Sub(Add(conservativeDemand, safetyStock), availableStock))
            aggressiveQty ==
                Ceil(Sub(Add(Mul(leadTimeDemand, Rat(15, 10)), safetyStock),
                         availableStock))
            row == [skuId        |-> inv.skuId,
                    suggestedQty |-> conservativeQty,
                    safetyStock  |-> safetyStock,
                    leadTimeDays |-> leadTimeDays,
                    rationaleJson |->
                        [type           |-> "conservative",
                         leadTimeDemand |-> leadTimeDemand,
                         availableStock |-> availableStock,
                         reorderPoint   |-> reorderPoint,
                         alternatives   |-> [aggressive |-> aggressiveQty]],
                    status       |-> "pending"]
        IN  IF ~needsReorder(availableStock, reorderPoint)
            THEN ReorderRows(Tail(todo), tbl, faults)
            ELSE IF faults[inv.skuId] = "createReorder"
            THEN [table |-> tbl, thrown |-> TRUE]
            ELSE ReorderRows(Tail(todo), createReorder(tbl, row), faults)

(***************************************************************************)
(* Specification SpecStore: forecast runs and reorder runs over one store  *)
(***************************************************************************)
\* forecast rows the table may hold before a run is no longer started
MaxForecastRows == 2
\* reorder rows the table may hold before a run is no longer started
MaxReorderRows == 3

\* one sale a day at noon on the days before the clock's day, oldest first
Recent(skuId, qs, clock) ==
    [i \in 1..Len(qs) |->
        [skuId     |-> skuId,
         timestamp |-> ((clock \div 24) - Len(qs) + i - 1) * 24 + 12,
         quantity  |-> qs[i]]]

\* the sales histories of SKU s1: none, one sale, a flat week, an uneven
\* nine days, and a sale older than the 30-day window before one recent sale
S1Sales(clock) ==
    { Recent("s1", <<>>, clock),
      Recent("s1", <<20>>, clock),
      Recent("s1", <<20, 20, 20, 20, 20, 20, 20>>, clock),
      Recent("s1", <<10, 10, 10, 10, 10, 10, 10>>, clock),
      Recent("s1", <<1, 1, 1, 1, 1, 1, 0, 1, 2>>, clock),
      <<[skuId |-> "s1", timestamp |-> 12, quantity |-> 90]>>
          \o Recent("s1", <<20>>, clock) }

OnHandChoices == {<<>>, <<10>>, <<100>>, <<168>>, <<200>>}

ReservedChoices == {<<>>, <<90>>}

LeadTimeChoices == {<<>>, <<0>>, <<1>>, <<7>>, <<10>>}

\* the second SKU: absent; an inventory row without SKU record; an inactive
\* SKU; an active SKU with negative stock
S2Cases == {"none", "orphan", "inactive", "active"}

InitStore ==
    /\ variant \in Variants
    /\ historicalData = <<>>
    /\ horizonHours = 0
    /\ result = <<>>
    /\ now = 40 * 24 + 18
    /\ forecasts = <<>>
    /\ reorders = <<>>
    /\ anomalies = <<>>
    /\ detection = <<>>
    /\ outcome = <<>>
    /\ \E s2 \in S2Cases, h \in S1Sales(40 * 24 + 18), onHand \in OnHandChoices,
          reserved \in ReservedChoices, lead \in LeadTimeChoices :
        /\ skus = (IF s2 \in {"inactive", "active"}
                   THEN <<[id |-> "s2", isActive |-> (s2 = "active"),
                           leadTimeDays |-> <<1>>]>>
                   ELSE <<>>)
                  \o <<[id |-> "s1", isActive |-> TRUE, leadTimeDays |-> lead]>>
        /\ sales = h \o (IF s2 = "none" THEN <<>>
                         ELSE Recent("s2", <<3, 4>>, 40 * 24 + 18))
        /\ inventory = (IF s2 = "none" THEN <<>>
                        ELSE <<[skuId |-> "s2", onHand |-> <<-5>>, reserved |-> <<0>>,
                                lastCountedAt |-> <<>>]>>)
                       \o <<[skuId |-> "s1", onHand |-> onHand, reserved |-> reserved,
                             lastCountedAt |-> <<>>]>>

\* runStoreForecasts(storeId) with the store and the SKU list loaded or not,
\* and the given call throwing in each SKU's iteration
RunStoreForecastsWith(loaded, faults) ==
    /\ Len(forecasts) + Len(getSkusByOrganization) <= MaxForecastRows
    /\ forecasts' = IF loaded
                    THEN ForecastRows(getSkusByOrganization,
                                      getSalesByStore(now - 30 * 24, now), forecasts,
                                      faults)
                    ELSE forecasts
    /\ outcome' = <<[call   |-> "runStoreForecasts",
                     thrown |-> forecastRunThrows(loaded, getSkusByOrganization, faults),
                     logged |-> IF loaded
                                THEN forecastRunLogged(getSkusByOrganization, faults)
                                ELSE {}]>>
    /\ UNCHANGED <<variant, now, skus, sales, inventory, reorders>>
    /\ UNCHANGED callVars
    /\ UNCHANGED anomalyVars

\* runStoreForecasts(storeId): one forecast row per active SKU
RunStoreForecasts == RunStoreForecastsWith(TRUE, NoFaults)

\* generateReorderSuggestions(storeId) with the inventory loaded or not, and
\* the given call throwing in each inventory row's iteration
GenerateReorderSuggestionsWith(loaded, faults) ==
    /\ Len(reorders) + Len(inventory) <= MaxReorderRows
    /\ reorders' = IF loaded THEN ReorderRows(inventory, reorders, faults).table
                   ELSE reorders
    /\ outcome' = <<[call   |-> "generateReorderSuggestions",
                     thrown |-> ~loaded
                                   \/ ReorderRows(inventory, reorders, faults).thrown,
                     logged |-> {}]>>
    /\ UNCHANGED <<variant, now, skus, sales, inventory, forecasts>>
    /\ UNCHANGED callVars
    /\ UNCHANGED anomalyVars

\* generateReorderSuggestions(storeId): one reorder row per triggered inventory row
GenerateReorderSuggestions == GenerateReorderSuggestionsWith(TRUE, NoFaults)

NextStore == RunStoreForecasts \/ GenerateReorderSuggestions

SpecStore == InitStore /\ [][NextStore]_vars

(***************************************************************************)
(* Specification SpecBatch: batch runs in which calls throw, and sales     *)
(* arriving between runs                                                   *)
(***************************************************************************)
\* sales rows the table may hold before no further sale is inserted
MaxSalesRows == 10

\* the units of a sale inserted between runs
InsertedQuantities == {50}

InitBatch ==
    /\ variant \in Variants
    /\ historicalData = <<>>
    /\ horizonHours = 0
    /\ result = <<>>
    /\ now = 40 * 24 + 18
    /\ forecasts = <<>>
    /\ reorders = <<>>
    /\ anomalies = <<>>
    /\ detection = <<>>
    /\ outcome = <<>>
    /\ sales = Recent("s1", <<20, 20, 20, 20, 20, 20, 20>>, 40 * 24 + 18)
                   \o Recent("s2", <<3, 4>>, 40 * 24 + 18)
    /\ \E s2Active \in BOOLEAN, s1First \in BOOLEAN, onHand \in {<<10>>, <<200>>} :
        /\ skus = <<[id |-> "s2", isActive |-> s2Active, leadTimeDays |-> <<1>>],
                    [id |-> "s1", isActive |-> TRUE, leadTimeDays |-> <<7>>]>>
        /\ inventory =
               LET s1Row == [skuId |-> "s1", onHand |-> onHand, reserved |-> <<>>,
                             lastCountedAt |-> <<>>]
                   s2Row == [skuId |-> "s2", onHand |-> <<-5>>, reserved |-> <<0>>,
                             lastCountedAt |-> <<>>]
               IN  IF s1First THEN <<s1Row, s2Row>> ELSE <<s2Row, s1Row>>

\* runStoreForecasts(storeId) in which any call may throw
RunStoreForecastsFaulty ==
    \E loaded \in BOOLEAN, faults \in [SkuIds -> ForecastFaults] :
        RunStoreForecastsWith(loaded, faults)

\* generateReorderSuggestions(storeId) in which any call may throw
GenerateReorderSuggestionsFaulty ==
    \E loaded \in BOOLEAN, faults \in [SkuIds -> ReorderFaults] :
        GenerateReorderSuggestionsWith(loaded, faults)

\* storage.insertSales with one sale of SKU s1 at the clock's hour
InsertSales ==
    /\ Len(sales) < MaxSalesRows
    /\ \E q \in InsertedQuantities :
           sales' = Append(sales, [skuId |-> "s1", timestamp |-> now, quantity |-> q])
    /\ UNCHANGED <<variant, now, skus, inventory, forecasts, reorders, outcome>>
    /\ UNCHANGED callVars
    /\ UNCHANGED anomalyVars

NextBatch == RunStoreForecastsFaulty \/ GenerateReorderSuggestionsFaulty \/ InsertSales

SpecBatch == InitBatch /\ [][NextBatch]_vars

(***************************************************************************)
(* Specification SpecSteady: a SKU that sells 10 units on each of 35       *)
(* consecutive days, forecast directly and through the store run           *)
(***************************************************************************)
\* 35 days of 10 units
SteadyQuantities == [i \in 1..35 |-> 10]

\* stock levels around the two reorder points at stake
SteadyOnHand == {<<k>> : k \in 59..63} \cup {<<k>> : k \in 119..122}

SteadyReserved == {<<>>, <<2>>}

InitSteady ==
    /\ variant \in Variants
    /\ now = 40 * 24 + 18
    /\ sales = Recent("s1", SteadyQuantities, 40 * 24 + 18)
    /\ historicalData = [i \in 1..35 |->
                            [timestamp |-> Recent("s1", SteadyQuantities,
                                                  40 * 24 + 18)[i].timestamp,
                             quantity  |-> 10]]
    /\ horizonHours = 0
    /\ result = <<>>
    /\ forecasts = <<>>
    /\ reorders = <<>>
    /\ anomalies = <<>>
    /\ detection = <<>>
    /\ outcome = <<>>
    /\ skus = <<[id |-> "s1", isActive |-> TRUE, leadTimeDays |-> <<5>>]>>
    /\ \E onHand \in SteadyOnHand, reserved \in SteadyReserved :
           inventory = <<[skuId |-> "s1", onHand |-> onHand, reserved |-> reserved,
                          lastCountedAt |-> <<>>]>>

NextSteady == GenerateForecast \/ RunStoreForecasts \/ GenerateReorderSuggestions

SpecSteady == InitSteady /\ [][NextSteady]_vars

(***************************************************************************)
(* AnomalyDetectionService (src/server/services/anomalyDetection.ts)       *)
(***************************************************************************)
\* sale.timestamp.toISOString().split('T')[0]: the UTC calendar day
dateKey(ts) == ts \div 24

\* Math.round: the nearest integer, halves upwards
Round(a) == Floor(Add(a, Rat(1, 2)))

\* sales.sort((a, b) => a.timestamp.getTime() - b.timestamp.getTime()), stable
RECURSIVE SortAscByTimestamp(_)
SortAscByTimestamp(rows) ==
    IF Len(rows) <= 1 THEN rows
    ELSE LET rest == SortAscByTimestamp(SubSeq(rows, 1, Len(rows) - 1))
             x    == rows[Len(rows)]
             lo   == SelectSeq(rest, LAMBDA y : y.timestamp <= x.timestamp)
             hi   == SelectSeq(rest, LAMBDA y : y.timestamp > x.timestamp)
         IN  lo \o <<x>> \o hi

\* one [date, quantity] per calendar day with a sale, ascending by date
aggregateByDay(rows) ==
    LET dates == {dateKey(rows[i].timestamp) : i \in 1..Len(rows)}
        total(d) == SumSeq(quantitiesOf(SelectSeq(rows, LAMBDA r : dateKey(r.timestamp) = d)))
        RECURSIVE Ascending(_)
        Ascending(ds) ==
            IF ds = {} THEN <<>>
            ELSE LET d == CHOOSE x \in ds : \A y \in ds : x <= y
                 IN  <<[date |-> d, quantity |-> total(d)]>> \o Ascending(ds \ {d})
    IN  Ascending(dates)

\* dailySales.slice(-3)
LastThree(xs) == SubSeq(xs, (IF Len(xs) > 3 THEN Len(xs) - 2 ELSE 1), Len(xs))

\* daySales.quantity > mean * 3 ? 'high' : 'medium'
spikeSeverity(quantity, mean) ==
    IF Gt(quantity, Mul(mean, Num(3))) THEN "high" ELSE "medium"

\* a plausible slip: the two conditions joined by ||
isSpikeEither(quantity, threshold, mean) ==
    Gt(quantity, threshold) \/ Gt(quantity, Mul(mean, Num(2)))

\* daySales.quantity > threshold && daySales.quantity > mean * 2
isSpike(quantity, threshold, mean) ==
    Gt(quantity, threshold) /\ Gt(quantity, Mul(mean, Num(2)))

\* a plausible slip: the mean > 5 condition left out
isDropAnyMean(recentAvg, mean) == Lt(recentAvg, Mul(mean, Rat(3, 10)))

\* a plausible slip: the factor 3 for 0.3
isDropTimesThree(recentAvg, mean) ==
    Lt(recentAvg, Mul(mean, Num(3))) /\ Gt(mean, Num(5))

\* recentAvg < mean * 0.3 && mean > 5
isDrop(recentAvg, mean) == Lt(recentAvg, Mul(mean, Rat(3, 10))) /\ Gt(mean, Num(5))

\* recentAvg < mean * 0.1 ? 'high' : 'medium'
dropSeverity(recentAvg, mean) ==
    IF Lt(recentAvg, Mul(mean, Rat(1, 10))) THEN "high" ELSE "medium"

\* a plausible slip: Saturday taken for a weekday
isWeekendSundayOnly(timestamp) == getDay(timestamp) = 0

\* dayOfWeek === 0 || dayOfWeek === 6
isWeekend(timestamp) == getDay(timestamp) = 0 \/ getDay(timestamp) = 6

\* a plausible slip: the two length tests joined by && instead of ||
tooFewForPatternBoth(weekdaySales, weekendSales) ==
    Len(weekdaySales) < 3 /\ Len(weekendSales) < 2

\* weekdaySales.length < 3 || weekendSales.length < 2
tooFewForPattern(weekdaySales, weekendSales) ==
    Len(weekdaySales) < 3 \/ Len(weekendSales) < 2

analyzeWeekdayPattern(rows) ==
    LET weekendSales == quantitiesOf(SelectSeq(rows, LAMBDA r : isWeekend(r.timestamp)))
        weekdaySales == quantitiesOf(SelectSeq(rows, LAMBDA r : ~isWeekend(r.timestamp)))
    IN  IF tooFewForPattern(weekdaySales, weekendSales)
        THEN [anomaly |-> FALSE, description |-> <<>>]
        ELSE
        LET weekdayAvg == calculateMean(weekdaySales)
            weekendAvg == calculateMean(weekendSales)
            ratio == Div(weekendAvg, weekdayAvg)
        IN  IF Gt(ratio, Num(2))
            THEN [anomaly |-> TRUE,
                  description |-> <<"higher", Round(Mul(Sub(ratio, Num(1)), Num(100)))>>]
            ELSE IF Lt(ratio, Rat(3, 10))
            THEN [anomaly |-> TRUE,
                  description |-> <<"lower", Round(Mul(Sub(Num(1), ratio), Num(100)))>>]
            ELSE [anomaly |-> FALSE, description |-> <<>>]

\* the anomalies of one SKU; a description holds the numbers the text is made of
detectSkuAnomalies(skuId, skuSales) ==
    IF Len(skuSales) < 7 THEN <<>>
    ELSE
    LET sorted == SortAscByTimestamp(skuSales)
        dailySales == aggregateByDay(sorted)
        quantities == [i \in 1..Len(dailySales) |-> dailySales[i].quantity]
        mean == calculateMean(quantities)
        std  == calculateStandardDeviation(quantities, mean)
        threshold == Add(mean, Mul(Num(2), std))
        recentSales == LastThree(dailySales)
        spikeDays == SelectSeq(recentSales,
                               LAMBDA d : isSpike(d.quantity, threshold, mean))
        spikes == [i \in 1..Len(spikeDays) |->
                      [skuId       |-> skuId,
                       type        |-> "demand_spike",
                       severity    |-> spikeSeverity(spikeDays[i].quantity, mean),
                       description |-> <<spikeDays[i].quantity,
                                         Round(Mul(Sub(Div(spikeDays[i].quantity, mean),
                                                       Num(1)), Num(100)))>>,
                       status      |-> "pending"]]
        recentAvg == calculateMean([i \in 1..Len(recentSales) |-> recentSales[i].quantity])
        drops == IF isDrop(recentAvg, mean)
                 THEN <<[skuId       |-> skuId,
                         type        |-> "demand_drop",
                         severity    |-> dropSeverity(recentAvg, mean),
                         description |-> <<Round(Mul(Sub(Num(1), Div(recentAvg, mean)),
                                                     Num(100)))>>,
                         status      |-> "pending"]>>
                 ELSE <<>>
        weekdayPattern == analyzeWeekdayPattern(sorted)
        patterns == IF weekdayPattern.anomaly
                    THEN <<[skuId       |-> skuId,
                            type        |-> "pattern_change",
                            severity    |-> "medium",
                            description |-> weekdayPattern.description,
                            status      |-> "pending"]>>
                    ELSE <<>>
    IN  spikes \o drops \o patterns

\* Math.floor((Date.now() - lastCountedAt.getTime()) / (1000 * 60 * 60 * 24))
daysSinceCountOf(clock, lastCountedAt) == Floor(Rat(clock - lastCountedAt, 24))[1]

\* a plausible slip: the two severities of stale inventory exchanged
staleSeverityInverted(daysSinceCount) == IF daysSinceCount > 60 THEN "low" ELSE "medium"

\* daysSinceCount > 60 ? 'medium' : 'low'
staleSeverity(daysSinceCount) == IF daysSinceCount > 60 THEN "medium" ELSE "low"

\* a plausible slip: the onHand > 0 condition left out
isExcessiveReservedAnyStock(reserved, onHand) ==
    Gt(Num(reserved), Mul(Num(onHand), Rat(8, 10)))

\* reserved > onHand * 0.8 && onHand > 0
isExcessiveReserved(reserved, onHand) ==
    Gt(Num(reserved), Mul(Num(onHand), Rat(8, 10))) /\ onHand > 0

\* the anomalies of one inventory row
inventoryRowAnomalies(inv, clock) ==
    LET negative ==
            IF OrElse(inv.onHand, 0) < 0
            THEN <<[skuId |-> inv.skuId, type |-> "negative_stock", severity |-> "high",
                    description |-> <<inv.onHand>>, status |-> "pending"]>>
            ELSE <<>>
        daysSinceCount == daysSinceCountOf(clock, inv.lastCountedAt[1])
        stale ==
            IF inv.lastCountedAt # <<>> /\ daysSinceCount > 30
            THEN <<[skuId |-> inv.skuId, type |-> "stale_inventory",
                    severity |-> staleSeverity(daysSinceCount),
                    description |-> <<daysSinceCount>>, status |-> "pending"]>>
            ELSE <<>>
        onHand   == OrElse(inv.onHand, 0)
        reserved == OrElse(inv.reserved, 0)
        excessive ==
            IF isExcessiveReserved(reserved, onHand)
            THEN <<[skuId |-> inv.skuId, type |-> "excessive_reserved",
                    severity |-> "medium",
                    description |-> <<reserved, onHand,
                                      Round(Mul(Rat(reserved, onHand), Num(100)))>>,
                    status |-> "pending"]>>
            ELSE <<>>
    IN  negative \o stale \o excessive

RECURSIVE detectInventoryAnomalies(_, _)
detectInventoryAnomalies(rows, clock) ==
    IF rows = <<>> THEN <<>>
    ELSE inventoryRowAnomalies(rows[1], clock)
             \o detectInventoryAnomalies(Tail(rows), clock)

\* the keys of skuSalesMap in insertion order: SKUs by first appearance
RECURSIVE FirstAppearance(_, _)
FirstAppearance(rows, seen) ==
    IF rows = <<>> THEN <<>>
    ELSE IF rows[1].skuId \in seen THEN FirstAppearance(Tail(rows), seen)
    ELSE <<rows[1].skuId>> \o FirstAppearance(Tail(rows), seen \cup {rows[1].skuId})

\* the sales of one SKU as detectAnomalies groups them
salesOfSku(salesData, skuId) ==
    LET mine == SelectSeq(salesData, LAMBDA r : r.skuId = skuId)
    IN  [i \in 1..Len(mine) |->
            [timestamp |-> mine[i].timestamp, quantity |-> mine[i].quantity]]

RECURSIVE allSkuAnomalies(_, _)
allSkuAnomalies(salesData, ids) ==
    IF ids = <<>> THEN <<>>
    ELSE detectSkuAnomalies(ids[1], salesOfSku(salesData, ids[1]))
             \o allSkuAnomalies(salesData, Tail(ids))

\* a plausible slip: the severity filter left out
countSeverityUnfiltered(found, level) == Len(found)

\* anomalies.filter(a => a.severity === level).length
countSeverity(found, level) == Len(SelectSeq(found, LAMBDA a : a.severity = level))

\* the result object: the anomalies with their summary
withSummary(found) ==
    [anomalies |-> found,
     summary   |-> [total          |-> Len(found),
                    highSeverity   |-> countSeverity(found, "high"),
                    mediumSeverity |-> countSeverity(found, "medium"),
                    lowSeverity    |-> countSeverity(found, "low")]]

\* the demand anomalies of every SKU sold in the window, then the inventory
\* anomalies
anomaliesFound(clock) ==
    LET salesData == getSalesByStore(clock - 30 * 24, clock)
    IN  allSkuAnomalies(salesData, FirstAppearance(salesData, {}))
            \o detectInventoryAnomalies(inventory, clock)

\* a plausible slip: anomalies of a SKU and type already stored are left out
detectAnomaliesUnseen(clock) ==
    withSummary(SelectSeq(anomaliesFound(clock),
                          LAMBDA a : \A i \in 1..Len(anomalies) :
                                         ~(anomalies[i].skuId = a.skuId
                                               /\ anomalies[i].type = a.type)))

detectAnomalies(clock) == withSummary(anomaliesFound(clock))

(***************************************************************************)
(* Specification SpecAnomaly: anomaly detection runs and anomaly actions   *)
(***************************************************************************)
\* how many detections with a non-empty result are run over the same data
MaxDetections == 2
\* anomaly actions are taken on the first rows of the table only
MaxActionedRows == 2

\* the older days of SKU s1: <<the total of each day, how many days, whether
\* the first day is sold in two sales>>
HistoryShapes == {<<1, 4, FALSE>>, <<2, 8, FALSE>>, <<5, 6, FALSE>>, <<10, 8, FALSE>>,
                  <<1, 3, FALSE>>, <<2, 3, TRUE>>, <<10, 6, TRUE>>, <<2, 25, FALSE>>}
\* the daily totals of the three most recent days
RecentTotals == {0, 1, 2, 5, 6, 8}

\* one sale a day at noon up to the clock's day, oldest first; with `split`
\* the first day is sold in two sales, at 09:00 and at 15:00
DailySales(skuId, totals, split, clock) ==
    LET day(i) == (clock \div 24) - Len(totals) + i
        whole == [i \in 1..Len(totals) |->
                     [skuId |-> skuId, timestamp |-> day(i) * 24 + 12,
                      quantity |-> totals[i]]]
    IN  IF split
        THEN <<[skuId |-> skuId, timestamp |-> day(1) * 24 + 15, quantity |-> 1],
               [skuId |-> skuId, timestamp |-> day(1) * 24 + 9,
                quantity |-> totals[1] - 1]>> \o Tail(whole)
        ELSE whole

\* a few days with several sales each: <<sales on Sunday, sales on Monday>>
BurstShapes == {<<0, 7>>, <<1, 6>>, <<2, 5>>, <<4, 3>>, <<5, 2>>}

\* the units of each Monday sale of those days
MondayQuantities == {0, 1}

\* `count` sales of `quantity` units on one day, an hour apart from 09:00
BurstSales(skuId, day, count, quantity) ==
    [i \in 1..count |->
        [skuId |-> skuId, timestamp |-> day * 24 + 8 + i, quantity |-> quantity]]

\* the total of the last day of a history of 25 days of 6 units and two days
\* without a unit
SurgeTotals == {0, 18, 46}

\* hours since the last count of an inventory row, <<>> when never counted
CountAges == {<<>>, <<10 * 24>>, <<30 * 24 + 23>>, <<31 * 24>>, <<60 * 24 + 23>>,
              <<61 * 24>>, <<90 * 24>>}

\* the same for the second inventory row
SecondCountAges == {<<>>, <<31 * 24>>, <<61 * 24>>}

AnomalyOnHand == {<<>>, <<-5>>, <<0>>, <<10>>}

AnomalyReserved == {<<>>, <<8>>, <<9>>}

lastCountedAtOf(clock, age) == IF age = <<>> THEN <<>> ELSE <<clock - age[1]>>

\* the request body's action is not validated by the route
ActionChoices == {"accept", "ignore", "resolve"}

InitAnomaly ==
    /\ variant = "MA"
    /\ historicalData = <<>>
    /\ horizonHours = 0
    /\ result = <<>>
    /\ now = 40 * 24 + 18
    /\ forecasts = <<>>
    /\ reorders = <<>>
    /\ anomalies = <<>>
    /\ detection = <<>>
    /\ outcome = <<>>
    /\ skus = <<[id |-> "s1", isActive |-> TRUE, leadTimeDays |-> <<7>>],
                [id |-> "s2", isActive |-> TRUE, leadTimeDays |-> <<1>>]>>
    /\ \/ \E shape \in HistoryShapes,
             r1 \in RecentTotals, r2 \in RecentTotals, r3 \in RecentTotals :
            /\ sales = Recent("s2", <<3, 4>>, 40 * 24 + 18)
                         \o DailySales("s1",
                                       [i \in 1..shape[2] |-> shape[1]] \o <<r1, r2, r3>>,
                                       shape[3], 40 * 24 + 18)
            /\ inventory = <<[skuId |-> "s1", onHand |-> <<10>>, reserved |-> <<>>,
                              lastCountedAt |-> <<>>]>>
       \/ \E age1 \in CountAges, age2 \in SecondCountAges :
            /\ sales = DailySales("s1", [i \in 1..25 |-> 2] \o <<2, 5, 8>>, FALSE,
                                   40 * 24 + 18)
            /\ inventory = <<[skuId |-> "s2", onHand |-> <<10>>, reserved |-> <<>>,
                              lastCountedAt |-> lastCountedAtOf(40 * 24 + 18, age2)],
                             [skuId |-> "s1", onHand |-> <<10>>, reserved |-> <<>>,
                              lastCountedAt |-> lastCountedAtOf(40 * 24 + 18, age1)]>>
       \/ \E shape \in BurstShapes, q \in RecentTotals, m \in MondayQuantities :
            /\ sales = BurstSales("s1", 38, shape[1], q)
                         \o BurstSales("s1", 39, shape[2], m)
            /\ inventory = <<>>
       \/ \E last \in SurgeTotals :
            /\ sales = DailySales("s1", [i \in 1..25 |-> 6] \o <<0, 0, last>>, FALSE,
                                   40 * 24 + 18)
            /\ inventory = <<>>
       \/ \E onHand \in AnomalyOnHand, reserved \in AnomalyReserved,
             age \in {<<>>, <<61 * 24>>} :
            /\ sales = DailySales("s1", <<1, 1, 1, 1, 1, 1, 6>>, FALSE, 40 * 24 + 18)
            /\ inventory = <<[skuId |-> "s1", onHand |-> onHand, reserved |-> reserved,
                              lastCountedAt |-> lastCountedAtOf(40 * 24 + 18, age)]>>

\* storage.createAnomaly for each anomaly of a detection, in order
RECURSIVE createAnomalies(_, _)
createAnomalies(found, tbl) ==
    IF found = <<>> THEN tbl
    ELSE createAnomalies(Tail(found),
             Append(tbl, [id          |-> Len(tbl) + 1,
                          skuId       |-> found[1].skuId,
                          type        |-> found[1].type,
                          severity    |-> found[1].severity,
                          description |-> found[1].description,
                          status      |-> found[1].status,
                          resolvedAt  |-> <<>>]))

\* a plausible slip: the update without its where clause
updateAnomalyStatusEveryRow(tbl, id, status) ==
    [i \in 1..Len(tbl) |->
        [tbl[i] EXCEPT !.status = status,
                       !.resolvedAt = IF status = "resolved" THEN <<now>> ELSE <<>>]]

\* a plausible slip: only a pending anomaly may be updated
updateAnomalyStatusPendingOnly(tbl, id, status) ==
    [i \in 1..Len(tbl) |->
        IF tbl[i].id = id /\ tbl[i].status = "pending"
        THEN [tbl[i] EXCEPT !.status = status,
                            !.resolvedAt = IF status = "resolved" THEN <<now>> ELSE <<>>]
        ELSE tbl[i]]

\* storage.updateAnomalyStatus(id, status)
updateAnomalyStatus(tbl, id, status) ==
    [i \in 1..Len(tbl) |->
        IF tbl[i].id = id
        THEN [tbl[i] EXCEPT !.status = status,
                            !.resolvedAt = IF status = "resolved" THEN <<now>> ELSE <<>>]
        ELSE tbl[i]]

\* processAnomalyAction(anomalyId, action)
processAnomalyAction(tbl, id, action) ==
    updateAnomalyStatus(tbl, id, IF action = "accept" THEN "accepted" ELSE "ignored")

\* the detections run so far that stored an anomaly; the data never change,
\* so each of them stored as many as the last one
DetectionRuns ==
    IF detection = <<>> \/ detection[1].anomalies = <<>> THEN 0
    ELSE Len(anomalies) \div Len(detection[1].anomalies)

\* POST /api/anomalies/detect/:storeId: detect, then save every anomaly found
DetectAnomalies ==
    /\ DetectionRuns < MaxDetections
    /\ \E found \in {detectAnomalies(now)} :
           /\ detection' = <<found>>
           /\ anomalies' = createAnomalies(found.anomalies, anomalies)
    /\ UNCHANGED <<variant, now, skus, sales, inventory, forecasts, reorders, outcome>>
    /\ UNCHANGED callVars

\* PATCH /api/anomalies/:id/action with the id of a stored anomaly
ProcessAnomalyActionOn(id, action) ==
    /\ id \in 1..Len(anomalies)
    /\ anomalies' = processAnomalyAction(anomalies, id, action)
    /\ UNCHANGED <<variant, now, skus, sales, inventory, forecasts, reorders, detection,
                   outcome>>
    /\ UNCHANGED callVars

ProcessAnomalyAction ==
    \E id \in 1..MaxActionedRows, action \in ActionChoices :
        ProcessAnomalyActionOn(id, action)

\* PATCH /api/anomalies/:id/action on an id that is not stored: 404
ProcessUnknownAnomaly ==
    /\ detection # <<>>
    /\ UNCHANGED vars

NextAnomaly == DetectAnomalies \/ ProcessAnomalyAction \/ ProcessUnknownAnomaly

SpecAnomaly == InitAnomaly /\ [][NextAnomaly]_vars

(***************************************************************************)
(* Properties of generateForecast (SpecForecast)                           *)
(***************************************************************************)
BaselineModels == {"baseline-median", "baseline"}

SeasonalModels == {"level-seasonal-with-residuals", "moving-average-with-seasonality"}

\* C1: in every forecast returned by generateForecast, baseline or seasonal,
\* p10[i] <= median[i] <= p90[i] at every index i.
C1_BandsOrdered ==
    \A r \in {result[j] : j \in 1..Len(result)} :
        \A i \in 1..Len(r.median) :
            /\ i \in DOMAIN r.p10 /\ i \in DOMAIN r.p90
            /\ Le(r.p10[i], r.median[i])
            /\ Le(r.median[i], r.p90[i])

\* a seasonal forecast with positive uncertainty: p10 < median < p90 at some index
C1_Witness ==
    /\ result # <<>>
    /\ result[1].metadata.model \in SeasonalModels
    /\ \E i \in 1..Len(result[1].median) :
        /\ Lt(result[1].p10[i], result[1].median[i])
        /\ Lt(result[1].median[i], result[1].p90[i])

\* C2: in every forecast returned by generateForecast, median[i] >= 0 and
\* p10[i] >= 0 at every index i, also where mean + seasonal deviation -
\* 1.28 * uncertainty is negative.
C2_NonNegative ==
    \A r \in {result[j] : j \in 1..Len(result)} :
        /\ \A i \in 1..Len(r.median) : Ge(r.median[i], Num(0))
        /\ \A i \in 1..Len(r.p10) : Ge(r.p10[i], Num(0))

\* a seasonal forecast where baseValue - 1.28 * uncertainty < 0 (that is
\* 2 * median - p90 < 0 at a point with baseValue >= 0) and p10 was clamped to 0
C2_Witness ==
    /\ result # <<>>
    /\ result[1].metadata.model \in SeasonalModels
    /\ \E i \in 1..Len(result[1].median) :
        /\ Lt(Sub(Mul(Num(2), result[1].median[i]), result[1].p90[i]), Num(0))
        /\ result[1].p10[i] = Num(0)

\* the least n with 24 * n >= hours, that is ceil(hours / 24)
DaysCovering(hours) == CHOOSE n \in 0..hours : 24 * n >= hours /\ 24 * (n - 1) < hours

\* C3: median, p10 and p90 have the same length, ceil(horizonHours / 24),
\* whichever model is used.
C3_Lengths ==
    \A r \in {result[j] : j \in 1..Len(result)} :
        /\ Len(r.median) = DaysCovering(horizonHours)
        /\ Len(r.p10) = DaysCovering(horizonHours)
        /\ Len(r.p90) = DaysCovering(horizonHours)

\* a 25-hour horizon gives 2 forecast days, with the baseline and with the seasonal model
C3_Witness ==
    /\ result # <<>>
    /\ horizonHours = 25
    /\ Len(result[1].median) = 2
    /\ Len(historicalData) >= 7

\* C4: fewer than 7 historical points always give the baseline model name,
\* and a seasonal model name is returned only for 7 or more points.
C4_BaselineFallback ==
    \A r \in {result[j] : j \in 1..Len(result)} :
        /\ Len(historicalData) < 7 => r.metadata.model \in BaselineModels
        /\ r.metadata.model \in SeasonalModels => Len(historicalData) >= 7

\* a history of 6 points answered with the baseline
C4_Witness ==
    /\ result # <<>>
    /\ Len(historicalData) = 6
    /\ result[1].metadata.model \in BaselineModels

(***************************************************************************)
(* Properties of generateReorderSuggestions (SpecStore)                    *)
(***************************************************************************)
\* xs[1] + ... + xs[min(n, Len(xs))]
RECURSIVE PrefixSum(_, _)
PrefixSum(xs, n) ==
    IF n <= 0 \/ xs = <<>> THEN Num(0)
    ELSE Add(xs[1], PrefixSum(Tail(xs), n - 1))

\* q is the integer ceil(x): q - 1 < x <= q
IsCeilOf(q, x) == q[2] = 1 /\ Le(x, q) /\ Lt(Sub(q, Num(1)), x)

\* the lead time a row is evaluated with: the SKU's leadTimeDays, 7 when unset
LeadTimeOf(skuId) ==
    LET k == getSku(skuId)[1].leadTimeDays
    IN  IF k = <<>> \/ k = <<0>> THEN 7 ELSE k[1]

\* onHand - reserved of an inventory row, a missing value counting as 0
AvailableOf(inv) ==
    Num((IF inv.onHand = <<>> THEN 0 ELSE inv.onHand[1])
        - (IF inv.reserved = <<>> THEN 0 ELSE inv.reserved[1]))

\* the rows appended to reorders by the step, for one SKU
NewRowsFor(skuId) ==
    SelectSeq(SubSeq(reorders', Len(reorders) + 1, Len(reorders')),
              LAMBDA r : r.skuId = skuId)

\* the inventory row has a stored forecast and a SKU record
Evaluated(inv) == getForecast(inv.skuId) # <<>> /\ getSku(inv.skuId) # <<>>

\* availableStock <= leadTimeDemand + safetyStock, with leadTimeDemand the sum
\* of the first min(leadTimeDays, len) medians and safetyStock = ceil(0.2 * it)
Triggered(inv) ==
    LET leadTimeDemand == PrefixSum(getForecast(inv.skuId)[1].medianForecast,
                                    LeadTimeOf(inv.skuId))
    IN  \E safetyStock \in {Num(k) : k \in 0..60} :
            /\ IsCeilOf(safetyStock, Mul(Rat(1, 5), leadTimeDemand))
            /\ Le(AvailableOf(inv), Add(leadTimeDemand, safetyStock))

\* C5: a run of generateReorderSuggestions creates a suggestion for an inventory
\* row that has a stored forecast and a SKU record if and only if
\* availableStock <= reorderPoint (availableStock = onHand - reserved,
\* reorderPoint = leadTimeDemand + ceil(0.2 * leadTimeDemand)), and it creates
\* none for the other rows.
C5_TriggerIff ==
    [][GenerateReorderSuggestions =>
        \A k \in 1..Len(inventory) :
            /\ Len(NewRowsFor(inventory[k].skuId)) <= 1
            /\ Evaluated(inventory[k]) =>
                  (Len(NewRowsFor(inventory[k].skuId)) = 1 <=> Triggered(inventory[k]))
            /\ ~Evaluated(inventory[k]) => NewRowsFor(inventory[k].skuId) = <<>>]_vars

\* the spec's example: onHand 100, reserved 90, lead time 7, median 20 a day:
\* availableStock 10 <= reorderPoint 168 and a suggestion exists
C5_Witness ==
    /\ \E k \in 1..Len(inventory) :
        /\ inventory[k].skuId = "s1"
        /\ inventory[k].onHand = <<100>>
        /\ inventory[k].reserved = <<90>>
    /\ getSku("s1")[1].leadTimeDays = <<7>>
    /\ getForecast("s1") # <<>>
    /\ getForecast("s1")[1].medianForecast = [i \in 1..7 |-> Num(20)]
    /\ \E j \in 1..Len(reorders) :
        /\ reorders[j].skuId = "s1"
        /\ reorders[j].rationaleJson.availableStock = Num(10)
        /\ reorders[j].rationaleJson.reorderPoint = Num(168)

\* C6: a created suggestion has suggestedQty = ceil(conservativeDemand +
\* safetyStock - availableStock), conservativeDemand the sum of the first
\* min(leadTimeDays, len) p90 values, and the aggressive alternative is
\* ceil(1.5 * leadTimeDemand + safetyStock - availableStock); a lead time
\* longer than the forecast sums the available days only.
C6_Quantities ==
    [][GenerateReorderSuggestions =>
        \A k \in 1..Len(inventory) :
            \A j \in 1..Len(NewRowsFor(inventory[k].skuId)) :
                LET row == NewRowsFor(inventory[k].skuId)[j]
                    f   == getForecast(inventory[k].skuId)[1]
                    lead == LeadTimeOf(inventory[k].skuId)
                    leadTimeDemand     == PrefixSum(f.medianForecast, lead)
                    conservativeDemand == PrefixSum(f.p90Forecast, lead)
                    availableStock     == AvailableOf(inventory[k])
                IN  /\ IsCeilOf(row.safetyStock, Mul(Rat(1, 5), leadTimeDemand))
                    /\ IsCeilOf(row.suggestedQty,
                                Sub(Add(conservativeDemand, row.safetyStock),
                                    availableStock))
                    /\ IsCeilOf(row.rationaleJson.alternatives.aggressive,
                                Sub(Add(Mul(Rat(3, 2), leadTimeDemand), row.safetyStock),
                                    availableStock))]_vars

\* a suggestion for a SKU whose lead time (10 days) exceeds the 7 forecast
\* days, and one whose lead time (1 day) is shorter, with uneven bands
C6_Witness ==
    /\ getSku("s1")[1].leadTimeDays \in {<<10>>, <<1>>}
    /\ getForecast("s1") # <<>>
    /\ Len(getForecast("s1")[1].medianForecast) = 7
    /\ Lt(getForecast("s1")[1].medianForecast[1], getForecast("s1")[1].p90Forecast[1])
    /\ \E j \in 1..Len(reorders) :
        /\ reorders[j].skuId = "s1"
        /\ reorders[j].leadTimeDays \in {10, 1}

\* C7: every persisted suggestion has suggestedQty >= 0 and safetyStock >= 0.
C7_NonNegativeQty ==
    \A j \in 1..Len(reorders) :
        /\ Ge(reorders[j].suggestedQty, Num(0))
        /\ Ge(reorders[j].safetyStock, Num(0))

\* a suggestion made at availableStock = reorderPoint and one made at a
\* negative availableStock
C7_Witness ==
    /\ \E j \in 1..Len(reorders) :
        reorders[j].rationaleJson.availableStock = reorders[j].rationaleJson.reorderPoint
    /\ \E j \in 1..Len(reorders) :
        Lt(reorders[j].rationaleJson.availableStock, Num(0))

\* C8: every created suggestion is pending, carries leadTimeDemand,
\* availableStock, reorderPoint and the aggressive alternative, and records
\* reorderPoint = leadTimeDemand + safetyStock and availableStock <= reorderPoint.
C8_Rationale ==
    \A j \in 1..Len(reorders) :
        LET r == reorders[j]
        IN  /\ r.status = "pending"
            /\ {"leadTimeDemand", "availableStock", "reorderPoint", "alternatives"}
                   \subseteq DOMAIN r.rationaleJson
            /\ "aggressive" \in DOMAIN r.rationaleJson.alternatives
            /\ r.rationaleJson.reorderPoint
                   = Add(r.rationaleJson.leadTimeDemand, r.safetyStock)
            /\ Le(r.rationaleJson.availableStock, r.rationaleJson.reorderPoint)

\* a suggestion with a positive safety stock
C8_Witness ==
    \E j \in 1..Len(reorders) : Gt(reorders[j].safetyStock, Num(0))

(***************************************************************************)
(* Properties of anomaly detection (SpecAnomaly)                           *)
(***************************************************************************)
\* the stored sales of a SKU inside the 30-day window, as positions in `sales`
WindowSales(skuId) ==
    {i \in 1..Len(sales) : /\ sales[i].skuId = skuId
                           /\ sales[i].timestamp >= now - 30 * 24
                           /\ sales[i].timestamp <= now}

RECURSIVE SumQuantities(_)
SumQuantities(positions) ==
    IF positions = {} THEN 0
    ELSE LET i == CHOOSE x \in positions : TRUE
         IN  sales[i].quantity + SumQuantities(positions \ {i})

RECURSIVE SumOver(_, _)
SumOver(f, keys) ==
    IF keys = {} THEN 0
    ELSE LET k == CHOOSE x \in keys : TRUE
         IN  f[k] + SumOver(f, keys \ {k})

\* the daily totals of a SKU over the window with their mean and population
\* standard deviation; the deviation is the root of (mean of squares - square
\* of mean), to Sqrt's precision; `recent` are the last three days with sales
DailyStats(skuId) ==
    LET window == WindowSales(skuId)
        days   == {sales[i].timestamp \div 24 : i \in window}
        total  == [d \in days |->
                      SumQuantities({i \in window : sales[i].timestamp \div 24 = d})]
        n      == Cardinality(days)
        sum    == SumOver(total, days)
        sumSq  == SumOver([d \in days |-> total[d] * total[d]], days)
        mean   == Rat(sum, n)
    IN  [days   |-> days,
         total  |-> total,
         n      |-> n,
         sum    |-> sum,
         mean   |-> mean,
         stddev |-> Sqrt(Sub(Rat(sumSq, n), Mul(mean, mean))),
         recent |-> {d \in days : Cardinality({e \in days : e > d}) < 3}]

\* the SKU is scanned: at least 7 sales in the window
Scanned(skuId) == Cardinality(WindowSales(skuId)) >= 7

\* q > mean + 2 * stddev
AboveThreshold(st, d) ==
    Gt(Num(st.total[d]), Add(st.mean, Mul(Num(2), st.stddev)))

\* q > mean + 2 * stddev and q > 2 * mean
SpikeExpected(st, d) == AboveThreshold(st, d) /\ st.total[d] * st.n > 2 * st.sum

SeverityExpected(st, d) == IF st.total[d] * st.n > 3 * st.sum THEN "high" ELSE "medium"

\* the day's total is exactly num/den times the mean of the daily totals
AtMultiple(st, d, num, den) == den * st.total[d] * st.n = num * st.sum

\* the demand_spike anomalies of the SKU in the last detection, in order
SpikesOf(skuId) ==
    SelectSeq(detection[1].anomalies,
              LAMBDA a : a.type = "demand_spike" /\ a.skuId = skuId)

\* the k-th earliest of the days
Earliest(days, k) == CHOOSE d \in days : Cardinality({e \in days : e < d}) = k - 1

\* C9: in the scan of a SKU, the demand_spike anomalies are, in order of the
\* day, exactly those of the last three daily totals q with
\* q > mean + 2 * stddev and q > 2 * mean (mean and population stddev over all
\* daily totals of the window); the severity is high when q > 3 * mean and
\* medium otherwise.  So a spike of a day at 3.5 times the mean is high, one
\* of a day at 2.2 times the mean is medium, and a day at 1.5 times the mean
\* has no spike.
C9_SpikeRule ==
    detection # <<>> =>
        \A skuId \in SkuIds :
            Scanned(skuId) =>
                LET st       == DailyStats(skuId)
                    spikes   == SpikesOf(skuId)
                    expected == {d \in st.recent : SpikeExpected(st, d)}
                    spikesFor(d) == {k \in 1..Len(spikes) :
                                        spikes[k].description[1] = Num(st.total[d])}
                IN  /\ Len(spikes) = Cardinality(expected)
                    /\ \A k \in 1..Len(spikes) :
                           /\ spikes[k].description[1]
                                  = Num(st.total[Earliest(expected, k)])
                           /\ spikes[k].severity
                                  = SeverityExpected(st, Earliest(expected, k))
                    /\ \A d \in st.recent :
                           /\ AtMultiple(st, d, 3, 2) => spikesFor(d) = {}
                           /\ AtMultiple(st, d, 7, 2) =>
                                  \A k \in spikesFor(d) : spikes[k].severity = "high"
                           /\ AtMultiple(st, d, 11, 5) =>
                                  \A k \in spikesFor(d) : spikes[k].severity = "medium"

\* a scan has reported a high spike for a recent day at 3.5 times the mean
C9_Witness ==
    /\ detection # <<>>
    /\ Scanned("s1")
    /\ LET st == DailyStats("s1")
           spikes == SpikesOf("s1")
       IN  \E d \in st.recent :
               /\ AtMultiple(st, d, 7, 2)
               /\ SpikeExpected(st, d)
               /\ \E k \in 1..Len(spikes) :
                      /\ spikes[k].description[1] = Num(st.total[d])
                      /\ spikes[k].severity = "high"

\* a scan has reported a medium spike for a recent day at 2.2 times the mean
SpikeAtTwoPointTwo ==
    /\ detection # <<>>
    /\ Scanned("s1")
    /\ LET st == DailyStats("s1")
           spikes == SpikesOf("s1")
       IN  \E d \in st.recent :
               /\ AtMultiple(st, d, 11, 5)
               /\ \E k \in 1..Len(spikes) :
                      /\ spikes[k].description[1] = Num(st.total[d])
                      /\ spikes[k].severity = "medium"

\* a scan has passed over a recent day at 1.5 times the mean that is above
\* mean + 2 * stddev
NoSpikeAtOnePointFive ==
    /\ detection # <<>>
    /\ Scanned("s1")
    /\ SpikesOf("s1") = <<>>
    /\ LET st == DailyStats("s1")
       IN  \E d \in st.recent : AtMultiple(st, d, 3, 2) /\ AboveThreshold(st, d)

\* a scan has passed over a recent day above 3 * mean that is not above
\* mean + 2 * stddev
NoSpikeBelowThreshold ==
    /\ detection # <<>>
    /\ Scanned("s1")
    /\ SpikesOf("s1") = <<>>
    /\ LET st == DailyStats("s1")
       IN  \E d \in st.recent :
               st.total[d] * st.n > 3 * st.sum /\ ~AboveThreshold(st, d)

SeverityRank(severity) ==
    IF severity = "high" THEN 3 ELSE IF severity = "medium" THEN 2
    ELSE IF severity = "low" THEN 1 ELSE 0

\* the rank of the stale_inventory anomaly reported for the SKU, 0 without one
StaleRank(skuId) ==
    LET mine == SelectSeq(detection[1].anomalies,
                          LAMBDA a : a.type = "stale_inventory" /\ a.skuId = skuId)
    IN  IF mine = <<>> THEN 0 ELSE SeverityRank(mine[1].severity)

\* whole days since the inventory row was counted
DaysSinceCount(inv) == (now - inv.lastCountedAt[1]) \div 24

\* C10: within one SKU's scan, when a recent day with total b has a
\* demand_spike, every recent day with total a >= b has one too, of a severity
\* at least as high; and of two counted inventory rows, the one with the
\* larger daysSinceCount never has the lower stale_inventory severity
\* (none < low < medium).
C10_SeverityMonotone ==
    detection # <<>> =>
        /\ \A skuId \in SkuIds :
               Scanned(skuId) =>
                   LET st     == DailyStats(skuId)
                       spikes == SpikesOf(skuId)
                   IN  \A a \in st.recent, b \in st.recent :
                           st.total[a] >= st.total[b] =>
                               \A i \in 1..Len(spikes) :
                                   spikes[i].description[1] = Num(st.total[b])
                                       => \E j \in 1..Len(spikes) :
                                              /\ spikes[j].description[1]
                                                     = Num(st.total[a])
                                              /\ SeverityRank(spikes[j].severity)
                                                     >= SeverityRank(spikes[i].severity)
        /\ \A x \in 1..Len(inventory), y \in 1..Len(inventory) :
               /\ inventory[x].lastCountedAt # <<>>
               /\ inventory[y].lastCountedAt # <<>>
               /\ DaysSinceCount(inventory[x]) >= DaysSinceCount(inventory[y])
               => StaleRank(inventory[x].skuId) >= StaleRank(inventory[y].skuId)

\* one detection has reported a medium and a high spike for two recent days of
\* a SKU, and a low and a medium stale_inventory for two inventory rows
C10_Witness ==
    /\ detection # <<>>
    /\ LET st     == DailyStats("s1")
           spikes == SpikesOf("s1")
       IN  \E a \in st.recent, b \in st.recent :
               /\ st.total[a] > st.total[b]
               /\ \E i \in 1..Len(spikes), j \in 1..Len(spikes) :
                      /\ spikes[i].description[1] = Num(st.total[b])
                      /\ spikes[i].severity = "medium"
                      /\ spikes[j].description[1] = Num(st.total[a])
                      /\ spikes[j].severity = "high"
    /\ \E x \in 1..Len(inventory), y \in 1..Len(inventory) :
           /\ inventory[x].lastCountedAt # <<>>
           /\ inventory[y].lastCountedAt # <<>>
           /\ DaysSinceCount(inventory[x]) > DaysSinceCount(inventory[y])
           /\ StaleRank(inventory[x].skuId) = 2
           /\ StaleRank(inventory[y].skuId) = 1

\* the anomalies of the given types reported for the SKU, in order
AnomaliesOf(skuId, types) ==
    SelectSeq(detection[1].anomalies,
              LAMBDA a : a.type \in types /\ a.skuId = skuId)

DemandTypes == {"demand_spike", "demand_drop", "pattern_change"}

\* C11: a SKU whose sales in the window fall on fewer than 7 distinct calendar
\* days, however many sale records there are, gets no demand_spike,
\* demand_drop or pattern_change anomaly from detectAnomalies.
C11_FewDaysSkipped ==
    detection # <<>> =>
        \A skuId \in SkuIds :
            Cardinality({sales[i].timestamp \div 24 : i \in WindowSales(skuId)}) < 7
                => AnomaliesOf(skuId, DemandTypes) = <<>>

\* the units sold on the given days
RecentSum(st) == SumOver(st.total, st.recent)

\* recentAvg < 0.3 * mean and mean > 5, recentAvg the mean of the recent totals
DropExpected(st) ==
    /\ 10 * RecentSum(st) * st.n < 3 * st.sum * Cardinality(st.recent)
    /\ st.sum > 5 * st.n

DropSeverityExpected(st) ==
    IF 10 * RecentSum(st) * st.n < st.sum * Cardinality(st.recent)
    THEN "high" ELSE "medium"

\* C12: the scan of a SKU reports a demand_drop exactly when recentAvg, the
\* mean of the last three daily totals, is below 0.3 * mean and mean > 5; its
\* severity is high when recentAvg < 0.1 * mean and medium otherwise; a scan
\* reports at most one demand_drop.
C12_DropRule ==
    detection # <<>> =>
        \A skuId \in SkuIds :
            Scanned(skuId) =>
                LET st    == DailyStats(skuId)
                    drops == AnomaliesOf(skuId, {"demand_drop"})
                IN  /\ Len(drops) <= 1
                    /\ Len(drops) = 1 <=> DropExpected(st)
                    /\ Len(drops) = 1 => drops[1].severity = DropSeverityExpected(st)

\* a scan has reported a medium demand_drop: recent days sold, but less than
\* 0.3 of the mean
C12_Witness ==
    /\ detection # <<>>
    /\ Scanned("s1")
    /\ DropExpected(DailyStats("s1"))
    /\ RecentSum(DailyStats("s1")) > 0
    /\ AnomaliesOf("s1", {"demand_drop"}) # <<>>
    /\ AnomaliesOf("s1", {"demand_drop"})[1].severity = "medium"

\* a scan has reported a high demand_drop
DropHigh ==
    /\ detection # <<>>
    /\ Scanned("s1")
    /\ AnomaliesOf("s1", {"demand_drop"}) # <<>>
    /\ AnomaliesOf("s1", {"demand_drop"})[1].severity = "high"

\* a scan has reported no demand_drop for recent days below 0.3 of a mean that
\* is not above 5
NoDropForSmallMean ==
    /\ detection # <<>>
    /\ Scanned("s1")
    /\ LET st == DailyStats("s1")
       IN  /\ 10 * RecentSum(st) * st.n < 3 * st.sum * Cardinality(st.recent)
           /\ st.sum <= 5 * st.n
    /\ AnomaliesOf("s1", {"demand_drop"}) = <<>>

\* the sales of the SKU in the window that fall, or do not fall, on a
\* Saturday or Sunday (day 0 of the clock is a Thursday)
WeekendSales(skuId) ==
    {i \in WindowSales(skuId) : ((sales[i].timestamp \div 24) + 4) % 7 \in {0, 6}}
WeekdaySales(skuId) == WindowSales(skuId) \ WeekendSales(skuId)

\* at least 3 weekday and 2 weekend sales, and the average weekend sale more
\* than 2 times or less than 0.3 times the average weekday sale
PatternExpected(skuId) ==
    LET we == WeekendSales(skuId)
        wk == WeekdaySales(skuId)
        weSum == SumQuantities(we)
        wkSum == SumQuantities(wk)
    IN  /\ Cardinality(wk) >= 3
        /\ Cardinality(we) >= 2
        /\ \/ weSum * Cardinality(wk) > 2 * wkSum * Cardinality(we)
           \/ /\ wkSum > 0
              /\ 10 * weSum * Cardinality(wk) < 3 * wkSum * Cardinality(we)

\* C13: the scan of a SKU reports a pattern_change, always of severity medium,
\* exactly when it has at least 3 weekday and at least 2 weekend sales and
\* ratio = weekendAvg / weekdayAvg is above 2 or below 0.3, weekend being
\* day-of-week 0 or 6; with fewer weekday or weekend sales there is none.
C13_PatternRule ==
    detection # <<>> =>
        \A skuId \in SkuIds :
            Scanned(skuId) =>
                LET patterns == AnomaliesOf(skuId, {"pattern_change"})
                IN  /\ Len(patterns) = (IF PatternExpected(skuId) THEN 1 ELSE 0)
                    /\ \A k \in 1..Len(patterns) : patterns[k].severity = "medium"
                    /\ (Cardinality(WeekdaySales(skuId)) < 3
                            \/ Cardinality(WeekendSales(skuId)) < 2)
                           => patterns = <<>>

\* a scan has reported a pattern_change for weekend sales below 0.3 of the
\* weekday sales
C13_Witness ==
    /\ detection # <<>>
    /\ Scanned("s1")
    /\ PatternExpected("s1")
    /\ AnomaliesOf("s1", {"pattern_change"}) # <<>>
    /\ AnomaliesOf("s1", {"pattern_change"})[1].description[1] = "lower"
    /\ AnomaliesOf("s1", {"pattern_change"})[1].severity = "medium"

\* a scan has reported a pattern_change for weekend sales above 2 times the
\* weekday sales
PatternHigher ==
    /\ detection # <<>>
    /\ Scanned("s1")
    /\ AnomaliesOf("s1", {"pattern_change"}) # <<>>
    /\ AnomaliesOf("s1", {"pattern_change"})[1].description[1] = "higher"

\* a scan has reported no pattern_change because of too few weekend sales,
\* though the one weekend sale is above 2 times the average weekday sale
NoPatternFewWeekend ==
    /\ detection # <<>>
    /\ Scanned("s1")
    /\ Cardinality(WeekendSales("s1")) = 1
    /\ SumQuantities(WeekendSales("s1")) * Cardinality(WeekdaySales("s1"))
           > 2 * SumQuantities(WeekdaySales("s1"))
    /\ AnomaliesOf("s1", {"pattern_change"}) = <<>>

\* the same because of too few weekday sales
NoPatternFewWeekday ==
    /\ detection # <<>>
    /\ Scanned("s1")
    /\ Cardinality(WeekdaySales("s1")) = 2
    /\ SumQuantities(WeekendSales("s1")) * 2
           > 2 * SumQuantities(WeekdaySales("s1")) * Cardinality(WeekendSales("s1"))
    /\ AnomaliesOf("s1", {"pattern_change"}) = <<>>

InventoryTypes == {"negative_stock", "stale_inventory", "excessive_reserved"}

\* the value of a nullable column, a null counting as 0
ValueOrZero(x) == IF x = <<>> THEN 0 ELSE x[1]

\* the type and severity of each anomaly of the list
TypeAndSeverity(found) ==
    [k \in 1..Len(found) |-> <<found[k].type, found[k].severity>>]

\* what the row's columns call for, in the order negative, stale, reserved
InventoryExpected(inv) ==
    (IF ValueOrZero(inv.onHand) < 0 THEN <<<<"negative_stock", "high">>>> ELSE <<>>)
    \o (IF inv.lastCountedAt # <<>> /\ DaysSinceCount(inv) > 30
        THEN <<<<"stale_inventory",
                 IF DaysSinceCount(inv) > 60 THEN "medium" ELSE "low">>>>
        ELSE <<>>)
    \o (IF ValueOrZero(inv.onHand) > 0
           /\ 5 * ValueOrZero(inv.reserved) > 4 * ValueOrZero(inv.onHand)
        THEN <<<<"excessive_reserved", "medium">>>> ELSE <<>>)

\* C14: for each inventory row, whatever the sales history, the detection
\* reports negative_stock (high) iff onHand < 0; stale_inventory iff
\* lastCountedAt is set and daysSinceCount > 30, medium when daysSinceCount > 60
\* and low otherwise; excessive_reserved (medium) iff onHand > 0 and
\* reserved > 0.8 * onHand; and no other inventory anomaly for the row.
C14_InventoryRules ==
    detection # <<>> =>
        /\ \A x \in 1..Len(inventory) :
               TypeAndSeverity(AnomaliesOf(inventory[x].skuId, InventoryTypes))
                   = InventoryExpected(inventory[x])
        /\ \A k \in 1..Len(detection[1].anomalies) :
               detection[1].anomalies[k].type \in InventoryTypes
                   => \E x \in 1..Len(inventory) :
                          inventory[x].skuId = detection[1].anomalies[k].skuId

\* a detection has reported a stale and an excessive_reserved anomaly, and no
\* other, for one inventory row
C14_Witness ==
    /\ detection # <<>>
    /\ \E x \in 1..Len(inventory) :
           /\ InventoryExpected(inventory[x])
                  = <<<<"stale_inventory", "medium">>, <<"excessive_reserved", "medium">>>>
           /\ TypeAndSeverity(AnomaliesOf(inventory[x].skuId, InventoryTypes))
                  = InventoryExpected(inventory[x])

\* a detection has reported negative_stock, and no excessive_reserved, for a row
\* with negative onHand and positive reserved
NegativeStockOnly ==
    /\ detection # <<>>
    /\ \E x \in 1..Len(inventory) :
           /\ ValueOrZero(inventory[x].onHand) < 0
           /\ ValueOrZero(inventory[x].reserved) > 0
           /\ inventory[x].lastCountedAt = <<>>
           /\ TypeAndSeverity(AnomaliesOf(inventory[x].skuId, InventoryTypes))
                  = <<<<"negative_stock", "high">>>>

\* a detection has reported nothing for a row with reserved exactly 0.8 of onHand
ReservedAtBoundary ==
    /\ detection # <<>>
    /\ \E x \in 1..Len(inventory) :
           /\ ValueOrZero(inventory[x].onHand) > 0
           /\ 5 * ValueOrZero(inventory[x].reserved) = 4 * ValueOrZero(inventory[x].onHand)
           /\ AnomaliesOf(inventory[x].skuId, {"excessive_reserved"}) = <<>>

Statuses == {"pending", "accepted", "ignored"}

\* every returned anomaly is pending, and every stored one is pending,
\* accepted or ignored
StatusesSettled ==
    /\ detection # <<>> =>
           \A k \in 1..Len(detection[1].anomalies) :
               detection[1].anomalies[k].status = "pending"
    /\ \A i \in 1..Len(anomalies) : anomalies[i].status \in Statuses

\* a step that processes an action on the anomaly `id` leaves it accepted for
\* accept and ignored for ignore, and changes no other anomaly, and of the
\* named one nothing but the status and the time of resolution
ActionEffect ==
    \A id \in 1..MaxActionedRows, action \in ActionChoices :
        ProcessAnomalyActionOn(id, action) =>
            /\ action = "accept" => anomalies'[id].status = "accepted"
            /\ action = "ignore" => anomalies'[id].status = "ignored"
            /\ Len(anomalies') = Len(anomalies)
            /\ \A i \in 1..Len(anomalies) :
                   IF i = id
                   THEN [anomalies'[i] EXCEPT !.status = "pending", !.resolvedAt = <<>>]
                            = [anomalies[i] EXCEPT !.status = "pending",
                                                   !.resolvedAt = <<>>]
                   ELSE anomalies'[i] = anomalies[i]

\* C15: every anomaly a detection returns has status pending; an accept
\* action leaves the named anomaly accepted and an ignore action leaves it
\* ignored; whatever detections and actions have run, every stored anomaly's
\* status is pending, accepted or ignored; and an action changes the status of
\* no anomaly other than the one it names.
C15_StatusLifecycle == []StatusesSettled /\ [][ActionEffect]_vars

\* of three or more stored anomalies the first has been accepted, the second
\* ignored, and the third is still pending
C15_Witness ==
    /\ Len(anomalies) >= 3
    /\ anomalies[1].status = "accepted"
    /\ anomalies[2].status = "ignored"
    /\ anomalies[3].status = "pending"

\* how many of the returned anomalies have the severity
Having(level) ==
    Cardinality({k \in 1..Len(detection[1].anomalies) :
                     detection[1].anomalies[k].severity = level})

\* C16: in every result of detectAnomalies, summary.total is the length of the
\* anomaly list, highSeverity, mediumSeverity and lowSeverity are the numbers
\* of anomalies of that severity, and total is the sum of the three.
C16_SummaryCounts ==
    detection # <<>> =>
        /\ detection[1].summary.total = Len(detection[1].anomalies)
        /\ detection[1].summary.highSeverity = Having("high")
        /\ detection[1].summary.mediumSeverity = Having("medium")
        /\ detection[1].summary.lowSeverity = Having("low")
        /\ detection[1].summary.total
               = detection[1].summary.highSeverity
                     + detection[1].summary.mediumSeverity
                     + detection[1].summary.lowSeverity

\* a detection has returned anomalies of all three severities, unequal in number
C16_Witness ==
    /\ detection # <<>>
    /\ Having("high") >= 1
    /\ Having("medium") >= 2
    /\ Having("low") >= 1
    /\ detection[1].summary.total = Having("high") + Having("medium") + Having("low")

ActiveSkuIds == {skus[i].id : i \in {j \in 1..Len(skus) : skus[j].isActive}}

\* the forecast rows of the SKU that the step has appended
NewForecastsFor(skuId) ==
    SelectSeq(SubSeq(forecasts', Len(forecasts) + 1, Len(forecasts')),
              LAMBDA f : f.skuId = skuId)

\* the step is a call of runStoreForecasts
ForecastRunStep ==
    /\ outcome' # <<>>
    /\ outcome'[1].call = "runStoreForecasts"
    /\ sales' = sales
    /\ reorders' = reorders

\* C18: in a run of runStoreForecasts a SKU whose iteration fails gets no
\* forecast row from the run and its error is not thrown on; every other
\* active SKU gets exactly one row; rows of earlier runs stay; and the call
\* throws only when the store or the SKU list could not be loaded, in which
\* case no row is written.
C18_PerSkuIsolation ==
    [][ForecastRunStep =>
          /\ SubSeq(forecasts', 1, Len(forecasts)) = forecasts
          /\ \A skuId \in SkuIds :
                 Len(NewForecastsFor(skuId))
                     = (IF skuId \in ActiveSkuIds /\ ~outcome'[1].thrown
                           /\ skuId \notin outcome'[1].logged
                        THEN 1 ELSE 0)
          /\ outcome'[1].logged # {} => ~outcome'[1].thrown
          /\ outcome'[1].thrown => forecasts' = forecasts]_vars

\* a run over two active SKUs has logged the failure of one, has not thrown,
\* and has left one forecast row, that of the other SKU
C18_Witness ==
    /\ outcome # <<>>
    /\ outcome[1].call = "runStoreForecasts"
    /\ ~outcome[1].thrown
    /\ outcome[1].logged = {"s2"}
    /\ ActiveSkuIds = {"s1", "s2"}
    /\ Len(forecasts) = 1
    /\ forecasts[1].skuId = "s1"

\* C19: in a run of generateReorderSuggestions that has loaded the inventory,
\* the failure of one inventory row's iteration is caught there: the call does
\* not throw, and every row whose own iteration does not fail - the rows after
\* the failing one too - is evaluated, its suggestion stored when triggered.
C19_LocalRecovery ==
    [][\A faults \in [SkuIds -> ReorderFaults] :
           GenerateReorderSuggestionsWith(TRUE, faults) =>
               /\ ~outcome'[1].thrown
               /\ \A x \in 1..Len(inventory) :
                      (/\ faults[inventory[x].skuId] = "none"
                       /\ Evaluated(inventory[x])
                       /\ Triggered(inventory[x]))
                          => NewRowsFor(inventory[x].skuId) # <<>>]_vars

\* a run of generateReorderSuggestions has thrown and stored nothing though
\* both inventory rows have a forecast and a SKU record and the second one is
\* short of stock
ReorderRunAborted ==
    /\ outcome # <<>>
    /\ outcome[1].call = "generateReorderSuggestions"
    /\ outcome[1].thrown
    /\ reorders = <<>>
    /\ Len(inventory) = 2
    /\ \A x \in 1..2 : getForecast(inventory[x].skuId) # <<>>
    /\ inventory[2].onHand = <<10>>

\* the row of the SKU that was inserted last into forecasts
ForecastOfLatestRun(skuId) ==
    LET mine == SelectSeq(forecasts, LAMBDA f : f.skuId = skuId)
    IN  mine[Len(mine)]

\* the step is a call of generateReorderSuggestions
ReorderRunStep ==
    /\ outcome' # <<>>
    /\ outcome'[1].call = "generateReorderSuggestions"
    /\ sales' = sales
    /\ forecasts' = forecasts

\* C20: after a run of runStoreForecasts, getForecast returns, for every SKU
\* the run has stored a forecast for, the row stored by that run and not one
\* of an earlier run; and a suggestion that generateReorderSuggestions stores
\* is computed from the forecast of the latest run that stored one for the SKU.
C20_RunReplacesForecast ==
    [][/\ ForecastRunStep =>
              \A skuId \in SkuIds :
                  NewForecastsFor(skuId) # <<>>
                      => getForecast(skuId)' = <<NewForecastsFor(skuId)[1]>>
       /\ ReorderRunStep =>
              \A skuId \in SkuIds :
                  \A j \in 1..Len(NewRowsFor(skuId)) :
                      NewRowsFor(skuId)[j].rationaleJson.leadTimeDemand
                          = PrefixSum(ForecastOfLatestRun(skuId).medianForecast,
                                      LeadTimeOf(skuId))]_vars

\* s1 has been forecast twice with a sale inserted in between, the two
\* forecasts differ, getForecast returns the second, and a suggestion has been
\* stored with the second's lead time demand, which is not the first's
C20_Witness ==
    LET mine == SelectSeq(forecasts, LAMBDA f : f.skuId = "s1")
    IN  /\ Len(mine) = 2
        /\ mine[1].medianForecast # mine[2].medianForecast
        /\ getForecast("s1") = <<mine[2]>>
        /\ \E j \in 1..Len(reorders) :
               /\ reorders[j].skuId = "s1"
               /\ reorders[j].rationaleJson.leadTimeDemand
                      = PrefixSum(mine[2].medianForecast, LeadTimeOf("s1"))
               /\ reorders[j].rationaleJson.leadTimeDemand
                      # PrefixSum(mine[1].medianForecast, LeadTimeOf("s1"))

(***************************************************************************)
(* Properties of the steady SKU (SpecSteady)                               *)
(***************************************************************************)
\* seven days of 10 units
SteadyWeek == [i \in 1..7 |-> Num(10)]

\* the 168-hour forecast of the 35-day history is 10 units on each of 7 days,
\* in the median and in both bands
SteadyForecast ==
    (result # <<>> /\ horizonHours = 168 /\ Len(historicalData) = 35)
        => /\ result[1].median = SteadyWeek
           /\ result[1].p10 = SteadyWeek
           /\ result[1].p90 = SteadyWeek

\* a reorder run stores a suggestion for a row with a forecast exactly when
\* onHand - reserved <= 60
SteadyTrigger ==
    GenerateReorderSuggestions =>
        \A k \in 1..Len(inventory) :
            Evaluated(inventory[k]) =>
                (NewRowsFor(inventory[k].skuId) # <<>>
                    <=> Le(AvailableOf(inventory[k]), Num(60)))

\* C21: for a SKU with 35 consecutive days of one sale of 10 units and
\* leadTimeDays = 5, generateForecast with horizon 168 returns median = p10 =
\* p90 = 10 on all 7 days, and generateReorderSuggestions creates a suggestion
\* exactly when onHand - reserved <= 60.
C21_SteadyDemand == []SteadyForecast /\ [][SteadyTrigger]_vars

\* the same for the ForecastService of src/unnamed/part_006 alone
SteadyDemandWithResiduals ==
    /\ [](variant = "residuals" => SteadyForecast)
    /\ [][variant = "residuals" => SteadyTrigger]_vars

\* the ForecastService of forecastService.ts has forecast 20 units a day and
\* stored a suggestion for 62 available units
SteadyDoubled ==
    /\ variant = "MA"
    /\ result # <<>> /\ horizonHours = 168
    /\ result[1].median = [i \in 1..7 |-> Num(20)]
    /\ inventory[1].onHand = <<62>> /\ inventory[1].reserved = <<>>
    /\ reorders # <<>>

\* the ForecastService of part_006 has forecast 10 units a day, stored a
\* suggestion for 60 available units and none for 61
SteadyAtSixty ==
    /\ variant = "residuals"
    /\ result # <<>> /\ horizonHours = 168
    /\ result[1].median = SteadyWeek
    /\ forecasts # <<>>
    /\ outcome # <<>> /\ outcome[1].call = "generateReorderSuggestions"
    /\ \/ AvailableOf(inventory[1]) = Num(60) /\ reorders # <<>>
       \/ AvailableOf(inventory[1]) = Num(61) /\ reorders = <<>>

(***************************************************************************)
(* Further properties of generateForecast (SpecForecast)                   *)
(***************************************************************************)
\* the accuracy of the returned forecast, when it has one, lies in [0, 100]
AccuracyInRange ==
    \A r \in {result[j] : j \in 1..Len(result)} :
        r.metadata.accuracy # <<>>
            => /\ Ge(r.metadata.accuracy[1], Num(0))
               /\ Le(r.metadata.accuracy[1], Num(100))

\* C22: whenever generateForecast returns metadata.accuracy, its value lies in
\* [0, 100], also for a history whose day-to-day or backtest percentage error
\* exceeds 100%.
C22_AccuracyBounded == AccuracyInRange

\* the same for the ForecastService of src/unnamed/part_006 alone
AccuracyBoundedWithResiduals == variant = "residuals" => AccuracyInRange

\* the backtest of part_006 met a percentage error above 100% and the
\* accuracy was clamped to 0
AccuracyClampedAtZero ==
    /\ variant = "residuals"
    /\ result # <<>>
    /\ Len(historicalData) = 14
    /\ historicalData[1].quantity = 10 /\ historicalData[14].quantity = 1
    /\ result[1].metadata.accuracy = <<Num(0)>>

\* calculateMAPE of forecastService.ts has returned a negative accuracy
AccuracyNegative ==
    /\ variant = "MA"
    /\ result # <<>>
    /\ result[1].metadata.accuracy # <<>>
    /\ Lt(result[1].metadata.accuracy[1], Num(0))

(***************************************************************************)
(* The forecast's first day (SpecStore, SpecForecast)                      *)
(***************************************************************************)
\* the sales of the SKU in the 30 days before the clock, as a set
WindowOf(skuId) ==
    {sales[x] : x \in {y \in 1..Len(sales) :
                          /\ sales[y].skuId = skuId
                          /\ sales[y].timestamp >= now - 30 * 24
                          /\ sales[y].timestamp <= now}}

\* the timestamp of the most recent observation of a non-empty set of sales
MostRecent(rows) ==
    CHOOSE t \in {r.timestamp : r \in rows} : \A r \in rows : r.timestamp <= t

\* the median forecast of `points` days that continues after the day-of-week
\* d of the most recent observation: day i takes the deviation of day-of-week
\* (d + 1 + i) mod 7
ContinuedMedian(data, d, points) ==
    LET mean == calculateMean(quantitiesOf(data))
        deviations == detectSeasonality(data, mean)
    IN  [k \in 1..points |->
            Max(Num(0), Add(mean, deviations[((d + 1 + (k - 1)) % 7) + 1]))]

\* C23: in the seasonal model, forecast day i (from 0) uses the seasonal
\* deviation of day-of-week (d + 1 + i) mod 7, d being the day-of-week of the
\* most recent historical observation, for the history that runStoreForecasts
\* passes in: the SKU's rows of getSalesByStore in the order of that query.
C23_ContinuesAfterLast ==
    [][RunStoreForecasts =>
        \A skuId \in SkuIds :
            \A j \in 1..Len(NewForecastsFor(skuId)) :
                LET row == NewForecastsFor(skuId)[j]
                    data == SelectSeq(sales, LAMBDA r : r \in WindowOf(skuId))
                IN  row.metadata.model = "level-seasonal-with-residuals"
                        => row.medianForecast
                               = ContinuedMedian(data,
                                                 getDay(MostRecent(WindowOf(skuId))),
                                                 7)]_vars

\* the same for a history handed to generateForecast oldest first
ContinuesAfterLastOldestFirst ==
    (/\ result # <<>>
     /\ result[1].metadata.model = "level-seasonal-with-residuals")
        => result[1].median
               = ContinuedMedian(historicalData,
                                 getDay(historicalData[Len(historicalData)].timestamp),
                                 Len(result[1].median))

\* runStoreForecasts has stored a seasonal forecast of the nine uneven days
\* of s1 whose first day carries the deviation of the day after the oldest
\* sale (+1/2) and not that of the day after the latest sale (0)
ForecastFromOldestDay ==
    /\ variant = "residuals"
    /\ Cardinality(WindowOf("s1")) = 9
    /\ getForecast("s1") # <<>>
    /\ getForecast("s1")[1].medianForecast[1] = Rat(3, 2)
    /\ ContinuedMedian(SelectSeq(sales, LAMBDA r : r \in WindowOf("s1")),
                       getDay(MostRecent(WindowOf("s1"))), 7)[1] = Num(1)

\* a seasonal forecast of an oldest-first history whose days differ
SeasonalDaysDiffer ==
    /\ variant = "residuals"
    /\ result # <<>>
    /\ result[1].metadata.model = "level-seasonal-with-residuals"
    /\ Len(result[1].median) = 7
    /\ \E i, k \in 1..7 : result[1].median[i] # result[1].median[k]

(***************************************************************************)
(* The weekly seasonality (SpecForecast)                                   *)
(***************************************************************************)
\* the positions of the history that fall on day-of-week d
DayPositions(d) ==
    {i \in 1..Len(historicalData) : getDay(historicalData[i].timestamp) = d}

\* the seven values are the bucket averages minus the overall mean of the
\* history, 0 for a day-of-week without observation, and, weighted by the
\* numbers of observations, they sum to zero
SeasonalityCentred ==
    LET q == [i \in 1..Len(historicalData) |-> historicalData[i].quantity]
        total == SumOver(q, 1..Len(historicalData))
        deviations == weeklySeasonality(variant, historicalData)
    IN  /\ Len(deviations) = 7
        /\ \A d \in 0..6 :
               deviations[d + 1]
                   = (IF DayPositions(d) = {} THEN Num(0)
                      ELSE Sub(Rat(SumOver(q, DayPositions(d)),
                                   Cardinality(DayPositions(d))),
                               Rat(total, Len(historicalData))))
        /\ SumSeq([k \in 1..7 |->
                      Mul(Num(Cardinality(DayPositions(k - 1))), deviations[k])])
               = Num(0)

\* C24: the weekly seasonality of a history that generateForecast has answered
\* with the seasonal model is 7 deviations, one per day-of-week, each the
\* day's bucket average minus the overall mean (0 for a day without
\* observation), and the deviations weighted by their observation counts sum
\* to zero.
C24_SeasonalityCentred ==
    (result # <<>> /\ Len(historicalData) >= 7) => SeasonalityCentred

\* the same for the ForecastService of src/unnamed/part_006 alone
SeasonalityCentredWithResiduals ==
    (variant = "residuals" /\ result # <<>> /\ Len(historicalData) >= 7)
        => SeasonalityCentred

\* part_006 has forecast a history of 9 days, two days-of-week observed
\* twice, with a positive and a negative deviation
DeviationsOfBothSigns ==
    /\ variant = "residuals"
    /\ result # <<>>
    /\ Len(historicalData) = 9
    /\ \E d, e \in 1..7 :
           /\ Gt(weeklySeasonality(variant, historicalData)[d], Num(0))
           /\ Lt(weeklySeasonality(variant, historicalData)[e], Num(0))

\* forecastService.ts has forecast a flat history of one unit a day: its
\* seasonality is 1 on every day-of-week, where the deviations are 0
SeasonalityNotCentred ==
    /\ variant = "MA"
    /\ result # <<>>
    /\ Len(historicalData) = 7
    /\ \A i \in 1..7 : historicalData[i].quantity = 1
    /\ weeklySeasonality(variant, historicalData) = [k \in 1..7 |-> Num(1)]

(***************************************************************************)
(* The baseline forecast (SpecForecast)                                    *)
(***************************************************************************)
\* the k-th smallest quantity of the history, 1 <= k <= Len(historicalData)
OrderStatistic(k) ==
    CHOOSE v \in {historicalData[i].quantity : i \in 1..Len(historicalData)} :
        /\ Cardinality({i \in 1..Len(historicalData) :
                           historicalData[i].quantity < v}) < k
        /\ Cardinality({i \in 1..Len(historicalData) :
                           historicalData[i].quantity <= v}) >= k

\* the median of the quantities of a non-empty history
MedianQuantity ==
    LET n == Len(historicalData)
    IN  IF n % 2 = 1 THEN Num(OrderStatistic((n + 1) \div 2))
        ELSE Rat(OrderStatistic(n \div 2) + OrderStatistic(n \div 2 + 1), 2)

\* the median of the quantities, at least 1; 5 without history
BaselineConstant ==
    IF historicalData = <<>> THEN Num(5)
    ELSE IF Lt(MedianQuantity, Num(1)) THEN Num(1) ELSE MedianQuantity

\* every forecast day carries the baseline constant, 0.6 times it in p10 and
\* 1.8 times it in p90
BaselineFilled ==
    /\ \A i \in 1..Len(result[1].median) : result[1].median[i] = BaselineConstant
    /\ \A i \in 1..Len(result[1].p10) :
           result[1].p10[i] = Mul(BaselineConstant, Rat(6, 10))
    /\ \A i \in 1..Len(result[1].p90) :
           result[1].p90[i] = Mul(BaselineConstant, Rat(18, 10))

\* C25: the baseline forecast (a history of fewer than 7 points) fills every
\* forecast day with one constant, the median of the available quantities
\* floored at 1, or 5 when there is no history at all; p10 is 0.6 times and
\* p90 is 1.8 times that constant on every day.
C25_BaselineConstant ==
    (result # <<>> /\ Len(historicalData) < 7) => BaselineFilled

\* the same for the ForecastService of src/unnamed/part_006 alone
BaselineConstantWithResiduals ==
    (variant = "residuals" /\ result # <<>> /\ Len(historicalData) < 7)
        => BaselineFilled

\* part_006 has answered a two-point history of median 3/2 over 7 days
BaselineOfMedian ==
    /\ variant = "residuals"
    /\ result # <<>>
    /\ Len(historicalData) = 2
    /\ MedianQuantity = Rat(3, 2)
    /\ result[1].median = [i \in 1..7 |-> Rat(3, 2)]
    /\ result[1].p10[7] = Rat(9, 10)
    /\ result[1].p90[7] = Rat(27, 10)

\* part_006 has answered a history of median 0 with the floor 1
BaselineFloored ==
    /\ variant = "residuals"
    /\ result # <<>>
    /\ historicalData # <<>>
    /\ MedianQuantity = Num(0)
    /\ result[1].median[1] = Num(1)

\* forecastService.ts has answered a history of median 2 with 5, 2.5 and 10
BaselineFixed ==
    /\ variant = "MA"
    /\ result # <<>>
    /\ Len(historicalData) = 3
    /\ MedianQuantity = Num(2)
    /\ result[1].median[1] = Num(5)
    /\ result[1].p10[1] = Rat(5, 2)
    /\ result[1].p90[1] = Num(10)

(***************************************************************************)
(* Non-finite numbers (SpecAnomaly, SpecForecast)                          *)
(***************************************************************************)
\* the computed numbers that the description of a demand anomaly is made of
ComputedNumbers(a) ==
    IF a.type = "demand_spike" THEN {a.description[2]}
    ELSE IF a.type = "demand_drop" THEN {a.description[1]}
    ELSE IF a.type = "pattern_change" THEN {a.description[2]}
    ELSE {}

\* no anomaly of the last detection is made of a NaN or an Infinity
AnomaliesFinite ==
    detection # <<>> =>
        \A k \in 1..Len(detection[1].anomalies) :
            \A x \in ComputedNumbers(detection[1].anomalies[k]) : IsFinite(x)

\* no value and no accuracy of the returned forecast is a NaN or an Infinity
ForecastFinite ==
    \A r \in {result[j] : j \in 1..Len(result)} :
        /\ \A i \in 1..Len(r.median) :
               IsFinite(r.median[i]) /\ IsFinite(r.p10[i]) /\ IsFinite(r.p90[i])
        /\ r.metadata.accuracy # <<>> => IsFinite(r.metadata.accuracy[1])

\* C26: a non-finite intermediate (NaN or Infinity, such as weekendAvg /
\* weekdayAvg when every weekday quantity is 0) is not turned into output:
\* detectAnomalies never returns an anomaly, and generateForecast never
\* returns a forecast value or an accuracy, derived from a NaN or an Infinity.
C26_NonFiniteSurfaced == AnomaliesFinite /\ ForecastFinite

\* a detection over two Sunday sales of 5 units and five Monday sales of 0
\* units has returned a pattern_change whose percentage is Infinity
PatternOfInfinity ==
    /\ detection # <<>>
    /\ \E k \in 1..Len(detection[1].anomalies) :
           /\ detection[1].anomalies[k].type = "pattern_change"
           /\ detection[1].anomalies[k].description = <<"higher", Infinity>>
    /\ Len(sales) = 7
    /\ sales[1].quantity = 5 /\ sales[3].quantity = 0

\* a seasonal forecast with an accuracy of its own has been returned
ForecastWithAccuracy ==
    /\ result # <<>>
    /\ Len(historicalData) = 14
    /\ result[1].metadata.accuracy # <<>>
    /\ result[1].metadata.accuracy[1] \notin {Num(60), Num(70), Num(80)}

(***************************************************************************)
(* Spike and drop together (SpecAnomaly)                                   *)
(***************************************************************************)
\* C27: for a SKU whose sale quantities are all non-negative, one detection
\* run never emits both a demand_spike and a demand_drop for that SKU.
C27_SpikeExcludesDrop ==
    detection # <<>> =>
        \A skuId \in SkuIds :
            (\A i \in WindowSales(skuId) : sales[i].quantity >= 0)
                => ~(/\ AnomaliesOf(skuId, {"demand_spike"}) # <<>>
                     /\ AnomaliesOf(skuId, {"demand_drop"}) # <<>>)

\* a detection over 25 days of 6 units, two days of 0 and a day of 18 (mean 6,
\* above the drop rule's 5) has returned a spike for the last day and no drop,
\* the mean of the last three days being 6
C27_Witness ==
    /\ detection # <<>>
    /\ Len(sales) = 28
    /\ sales[1].quantity = 6 /\ sales[26].quantity = 0 /\ sales[27].quantity = 0
    /\ sales[28].quantity = 18
    /\ Len(AnomaliesOf("s1", {"demand_spike"})) = 1
    /\ AnomaliesOf("s1", {"demand_drop"}) = <<>>

\* the same history ending on a third day of 0 units: a drop and no spike
DropWithoutSpike ==
    /\ detection # <<>>
    /\ Len(sales) = 28
    /\ sales[1].quantity = 6 /\ sales[28].quantity = 0
    /\ AnomaliesOf("s1", {"demand_spike"}) = <<>>
    /\ Len(AnomaliesOf("s1", {"demand_drop"})) = 1

(***************************************************************************)
(* Actions on an anomaly already acted on (SpecAnomaly)                    *)
(***************************************************************************)
\* the status an action leads to
StatusAfter(action) == IF action = "accept" THEN "accepted" ELSE "ignored"

\* an action on the stored anomaly `id` is possible whatever its status, and
\* leaves it with the status the action names; when the anomaly has that
\* status already, the table stays as it is
ActionOpen(id, action) ==
    /\ ENABLED (/\ ProcessAnomalyActionOn(id, action)
                /\ anomalies'[id].status = StatusAfter(action))
    /\ anomalies[id].status = StatusAfter(action)
           => ENABLED (ProcessAnomalyActionOn(id, action) /\ anomalies' = anomalies)

\* C28: processAnomalyAction has no terminal state and no precondition on the
\* current status: the resulting status is determined by the action argument
\* alone, so an accepted anomaly can later be set to ignored and an ignored
\* one to accepted, and repeating the same action leaves the status unchanged.
C28_NoTerminalStatus ==
    \A id \in 1..MaxActionedRows, action \in {"accept", "ignore"} :
        id <= Len(anomalies) => ActionOpen(id, action)

\* the first anomaly is accepted and an ignore action would leave it ignored;
\* the second is ignored and an accept action would leave it accepted
C28_Witness ==
    /\ Len(anomalies) >= 2
    /\ anomalies[1].status = "accepted"
    /\ anomalies[2].status = "ignored"
    /\ ENABLED (ProcessAnomalyActionOn(1, "ignore") /\ anomalies'[1].status = "ignored")
    /\ ENABLED (ProcessAnomalyActionOn(2, "accept") /\ anomalies'[2].status = "accepted")

(***************************************************************************)
(* Repeated reorder runs (SpecStore)                                       *)
(***************************************************************************)
\* the inventory rows a run stores a suggestion for
TriggeredRows ==
    {k \in 1..Len(inventory) : Evaluated(inventory[k]) /\ Triggered(inventory[k])}

\* the suggestions stored for the SKU
SuggestionsOf(skuId) == SelectSeq(reorders, LAMBDA r : r.skuId = skuId)

\* the table that a run of generateReorderSuggestions started now leaves
AfterNextRun == ReorderRows(inventory, reorders, NoFaults).table

\* a run started now leaves every stored suggestion as it is and adds one
\* pending suggestion for each triggered inventory row, whatever is stored
\* for its SKU already
NextRunAdds ==
    /\ SubSeq(AfterNextRun, 1, Len(reorders)) = reorders
    /\ Len(AfterNextRun) = Len(reorders) + Cardinality(TriggeredRows)
    /\ \A k \in TriggeredRows :
           LET added == SelectSeq(SubSeq(AfterNextRun, Len(reorders) + 1,
                                         Len(AfterNextRun)),
                                  LAMBDA r : r.skuId = inventory[k].skuId)
           IN  Len(added) = 1 /\ added[1].status = "pending"

\* C29: generateReorderSuggestions never reads or updates the stored
\* suggestions: each run inserts one new pending suggestion for every inventory
\* row whose trigger condition holds, so that n runs over unchanged forecasts
\* and inventory leave n pending suggestions for a triggered SKU, and a later
\* run changes neither status nor quantity of an earlier suggestion.
C29_RunsOnlyInsert ==
    /\ []NextRunAdds
    /\ [][GenerateReorderSuggestions => reorders' = AfterNextRun]_vars

\* three runs over one triggered inventory row have left three pending
\* suggestions of the same quantity
C29_Witness ==
    /\ Len(inventory) = 1
    /\ Len(SuggestionsOf("s1")) = 3
    /\ \A j \in 1..3 :
           /\ SuggestionsOf("s1")[j].status = "pending"
           /\ SuggestionsOf("s1")[j].suggestedQty = SuggestionsOf("s1")[1].suggestedQty

(***************************************************************************)
(* The arguments of calculateMean (SpecAnomaly)                            *)
(***************************************************************************)
\* the sequences calculateBacktestAccuracy hands to calculateMean
meanCallsOfBacktest(data) ==
    IF Len(data) < 14 THEN {}
    ELSE LET trainData == SubSeq(data, 1, Len(data) - 7)
         IN  IF Len(trainData) < 7 THEN {}
             ELSE {quantitiesOf(trainData)}

\* the sequences a generateForecast call of the source hands to calculateMean,
\* directly or in calculateBacktestAccuracy
meanCallsOfForecast(v, data) ==
    IF InsufficientHistory(data) THEN {}
    ELSE IF v = "residuals"
    THEN {quantitiesOf(data)} \cup meanCallsOfBacktest(data)
    ELSE {quantitiesOf(data)}

\* the sequences analyzeWeekdayPattern hands to calculateMean
meanCallsOfPattern(rows) ==
    LET weekendSales == quantitiesOf(SelectSeq(rows, LAMBDA r : isWeekend(r.timestamp)))
        weekdaySales == quantitiesOf(SelectSeq(rows, LAMBDA r : ~isWeekend(r.timestamp)))
    IN  IF tooFewForPattern(weekdaySales, weekendSales) THEN {}
        ELSE {weekdaySales, weekendSales}

\* the sequences detectSkuAnomalies hands to calculateMean, directly or in
\* analyzeWeekdayPattern
meanCallsOfSku(skuSales) ==
    IF Len(skuSales) < 7 THEN {}
    ELSE
    LET sorted == SortAscByTimestamp(skuSales)
        dailySales == aggregateByDay(sorted)
        quantities == [i \in 1..Len(dailySales) |-> dailySales[i].quantity]
        recentSales == LastThree(dailySales)
    IN  {quantities, [i \in 1..Len(recentSales) |-> recentSales[i].quantity]}
            \cup meanCallsOfPattern(sorted)

\* the sales of the SKU that a batch run started at the clock works on
windowSales(skuId) == salesOfSku(getSalesByStore(now - 30 * 24, now), skuId)

\* the sequences a detectAnomalies run started now hands to calculateMean
meanCallsOfDetection ==
    LET salesData == getSalesByStore(now - 30 * 24, now)
        ids == FirstAppearance(salesData, {})
    IN  UNION {meanCallsOfSku(salesOfSku(salesData, ids[k])) : k \in 1..Len(ids)}

\* the histories at hand for a generateForecast call: the input of the direct
\* call and the histories that runStoreForecasts passes for the SKUs
HistoriesAtHand == {historicalData} \cup {windowSales(id) : id \in SkuIds}

\* C30: callers guard every mean computation: on no path through
\* generateForecast, whatever the length of the history (the empty history
\* included), and on no path through detectAnomalies, whatever the sales and
\* inventory data, is calculateMean invoked on an empty sequence.
C30_MeanNeverOfEmpty ==
    /\ \A v \in Variants, data \in HistoriesAtHand :
           \A values \in meanCallsOfForecast(v, data) : Len(values) > 0
    /\ \A values \in meanCallsOfDetection : Len(values) > 0

\* a detection has run over a SKU with seven weekday sales and no weekend
\* sale, whose weekday pattern is skipped while its other means are computed;
\* an empty history is at hand for generateForecast, for which no mean is
\* computed, and a history for which one is
C30_Witness ==
    /\ detection # <<>>
    /\ \E id \in SkuIds :
           /\ Len(windowSales(id)) >= 7
           /\ SelectSeq(windowSales(id), LAMBDA r : isWeekend(r.timestamp)) = <<>>
           /\ meanCallsOfPattern(windowSales(id)) = {}
           /\ Cardinality(meanCallsOfSku(windowSales(id))) >= 1
    /\ <<>> \in HistoriesAtHand
    /\ \A v \in Variants : meanCallsOfForecast(v, <<>>) = {}
    /\ \E data \in HistoriesAtHand, v \in Variants : meanCallsOfForecast(v, data) # {}

=============================================================================
